---- MODULE Spec2Model ----
(***************************************************************************)
(* Block pattern engine of WorldEdit-BE-LL: the pattern constructor        *)
(* (tokenizer and term compiler), the weighted selector, block resolution  *)
(* and setBlock, for both pattern classes of the repository:               *)
(*   BlockListPattern  (src/core/store/BlockListPattern.cpp)               *)
(*   BlockPattern      (src/core/store/BlockPattern.cpp)                   *)
(* Strings are sequences of one-character strings; indices in comments are *)
(* the 0-based indices of the C++ source.                                   *)
(***************************************************************************)
EXTENDS Integers, Sequences, FiniteSets, TLC

VARIABLES input, pat, world, env, call

vars == <<input, pat, world, env, call>>

(***************************************************************************)
(* Bounds of the model.                                                    *)
(***************************************************************************)
\* longest generated pattern string given to the constructor
MaxLen == 3
\* reads past the terminating NUL that the unbounded '[' loop may make
\* before the model declares that the scan never returns
OobSlack == 2
\* longest weight list given directly to the selector
MaxEntries == 3
\* the uniform draw u is one of 0/RandSteps .. (RandSteps-1)/RandSteps
RandSteps == 4
\* world positions are 0 .. MaxCoord on each axis of the clipboard model
MaxCoord == 2
\* most terms of a pattern string built from the sample terms
MaxTerms == 2

MaxTick == 4

(***************************************************************************)
(* Characters.                                                             *)
(***************************************************************************)
Digits == {"0", "1", "2", "3", "4", "5", "6", "7", "8", "9"}

Letters ==
  {"a", "b", "c", "d", "e", "f", "g", "h", "i", "j", "k", "l", "m", "n", "o",
   "p", "q", "r", "s", "t", "u", "v", "w", "x", "y", "z", "S", "N", "B", "T"}

\* std::string::operator[] at index size() yields the terminating NUL
NUL == "NUL"

isdigit(c) == c \in Digits

isalpha(c) == c \in Letters

DigitVal(c) ==
  CASE c = "0" -> 0 [] c = "1" -> 1 [] c = "2" -> 2 [] c = "3" -> 3
    [] c = "4" -> 4 [] c = "5" -> 5 [] c = "6" -> 6 [] c = "7" -> 7
    [] c = "8" -> 8 [] c = "9" -> 9

Max(a, b) == IF a >= b THEN a ELSE b

Min(a, b) == IF a <= b THEN a ELSE b

\* str[i] of the source: defined up to i = size(), undefined behaviour
\* beyond it, where the read yields the arbitrary character oob
At(str, i, oob) ==
  IF i < Len(str) THEN str[i + 1] ELSE IF i = Len(str) THEN NUL ELSE oob

\* str.substr(head, n) for head <= size(); the count is clamped
Substr(str, head, n) == SubSeq(str, head + 1, Min(head + n, Len(str)))

\* hay.find(needle) != npos
Find(hay, needle) ==
  \E k \in 0..(Len(hay) - Len(needle)) :
     SubSeq(hay, k + 1, k + Len(needle)) = needle

\* the token words the tokenizer appends to form
wNum == <<"n", "u", "m">>

wFunciton == <<"f", "u", "n", "c", "i", "t", "o", "n">>

wRtfunciton == <<"r", "t">> \o wFunciton

wBlock == <<"b", "l", "o", "c", "k">>

wSNBT == <<"S", "N", "B", "T">>

Prefix == <<"m", "i", "n", "e", "c", "r", "a", "f", "t", ":">>

(***************************************************************************)
(* Numeric conversions of the standard library, on character sequences.    *)
(* Weights are held in tenths: 12.5 is 125.                                 *)
(***************************************************************************)
RECURSIVE LeadDigits(_, _)
\* value of the leading run of decimal digits of seq, from acc
LeadDigits(seq, acc) ==
  IF seq # <<>> /\ isdigit(seq[1])
    THEN LeadDigits(Tail(seq), acc * 10 + DigitVal(seq[1]))
    ELSE acc

RECURSIVE DropDigits(_)
DropDigits(seq) ==
  IF seq # <<>> /\ isdigit(seq[1]) THEN DropDigits(Tail(seq)) ELSE seq

Unsigned(tok) == IF tok # <<>> /\ tok[1] = "-" THEN Tail(tok) ELSE tok

Sign(tok) == IF tok # <<>> /\ tok[1] = "-" THEN -1 ELSE 1

\* std::stoi: an optional sign and at least one digit, else invalid_argument
StoiOK(tok) == Unsigned(tok) # <<>> /\ isdigit(Unsigned(tok)[1])

StoiVal(tok) == Sign(tok) * LeadDigits(Unsigned(tok), 0)

\* std::stod: sign, digits, optional '.' and digits, at least one digit in all
StodOK(tok) ==
  LET body == Unsigned(tok)
      rest == DropDigits(body)
  IN  \/ (body # <<>> /\ isdigit(body[1]))
      \/ (Len(rest) >= 2 /\ rest[1] = "." /\ isdigit(rest[2]))

\* the value of std::stod in tenths (digits after the first decimal are
\* below the resolution of the model)
StodVal(tok) ==
  LET body == Unsigned(tok)
      rest == DropDigits(body)
      frac == IF Len(rest) >= 2 /\ rest[1] = "." /\ isdigit(rest[2])
                THEN DigitVal(rest[2]) ELSE 0
  IN  Sign(tok) * (LeadDigits(body, 0) * 10 + frac)

(***************************************************************************)
(* The tokenizer loop of the constructors.  A scan state is                *)
(*   i       the cursor                                                    *)
(*   form    the token-kind string                                         *)
(*   raw     the token texts                                               *)
(*   maxRead the largest index of str read so far                          *)
(*   hang    the '[' loop ran past the end of the string without return    *)
(***************************************************************************)
RECURSIVE NumEnd(_, _)
NumEnd(str, i) ==
  IF i < Len(str) /\ (str[i + 1] = "." \/ isdigit(str[i + 1]))
    THEN NumEnd(str, i + 1) ELSE i

RECURSIVE QuoteEnd(_, _)
QuoteEnd(str, i) ==
  IF i < Len(str) /\ str[i + 1] # "'" THEN QuoteEnd(str, i + 1) ELSE i

RECURSIVE IdentEnd(_, _)
IdentEnd(str, i) ==
  IF i < Len(str)
     /\ (\/ isalpha(str[i + 1])
         \/ str[i + 1] = "_"
         \/ isdigit(str[i + 1])
         \/ (str[i + 1] = ":" /\ i + 1 < Len(str) /\ isalpha(str[i + 2])))
    THEN IdentEnd(str, i + 1) ELSE i

RECURSIVE BraceEnd(_, _, _)
BraceEnd(str, i, bracket) ==
  IF i < Len(str) /\ bracket < 0
    THEN BraceEnd(str, i + 1,
                  IF str[i + 1] = "{" THEN bracket - 1
                  ELSE IF str[i + 1] = "}" THEN bracket + 1 ELSE bracket)
    ELSE i

RECURSIVE StateEnd(_, _, _, _)
\* while (kb > 0) of BlockListPattern: no test of i against strSize.  The
\* result is the cursor after the loop, or -1 when the loop is still reading
\* OobSlack characters past the terminating NUL.
StateEnd(str, i, kb, oob) ==
  IF kb <= 0 THEN i
  ELSE IF i > Len(str) + OobSlack THEN -1
  ELSE StateEnd(str, i + 1,
                IF At(str, i, oob) = "[" THEN kb + 1
                ELSE IF At(str, i, oob) = "]" THEN kb - 1 ELSE kb,
                oob)

ScanInit == [i |-> 0, form |-> <<>>, raw |-> <<>>, maxRead |-> 0, hang |-> FALSE]

\* one token: the word w, the delimiter read at index e, the text, the cursor
Emit(str, s, w, text, e, oob) ==
  [s EXCEPT !.i = e + 1,
            !.form = @ \o w \o <<At(str, e, oob)>>,
            !.raw = Append(@, text),
            !.maxRead = Max(@, e)]

RECURSIVE Scan(_, _, _, _)
\* states is TRUE for BlockListPattern, whose identifiers take a [...] suffix
Scan(str, s, oob, states) ==
  IF s.hang \/ s.i >= Len(str) THEN s
  ELSE
    LET i == s.i
        c == str[i + 1]
    IN
    IF c = "-" \/ isdigit(c) THEN
      LET e == NumEnd(str, i + 1)
      IN  Scan(str, Emit(str, s, wNum, Substr(str, i, e - i), e, oob),
               oob, states)
    ELSE IF c = "'" THEN
      LET head == i + 1
          e == QuoteEnd(str, head)
      IN  Scan(str,
               Emit(str, s, wFunciton, Substr(str, head, e - head), e + 1, oob),
               oob, states)
    ELSE IF isalpha(c) THEN
      \* str[i + 1] and str[i + 2] are read only as far as the && goes
      LET la == [s EXCEPT !.maxRead =
                   Max(@, IF c # "r" THEN i
                          ELSE IF At(str, i + 1, oob) # "t" THEN i + 1
                          ELSE i + 2)]
      IN
      IF c = "r" /\ At(str, i + 1, oob) = "t" /\ At(str, i + 2, oob) = "'" THEN
        LET head == i + 3
            e == QuoteEnd(str, head)
        IN  Scan(str,
                 Emit(str, la, wRtfunciton, Substr(str, head, e - head),
                      e + 1, oob),
                 oob, states)
      ELSE
        LET e == IdentEnd(str, i + 1)
            b == IF states /\ At(str, e, oob) = "["
                   THEN StateEnd(str, e + 1, 1, oob) ELSE e
        IN  IF b < 0
              THEN [la EXCEPT !.hang = TRUE,
                              !.maxRead = Len(str) + OobSlack + 1]
              ELSE Scan(str, Emit(str, la, wBlock, Substr(str, i, b - i), b, oob),
                        oob, states)
    ELSE IF c = "{" THEN
      LET e == BraceEnd(str, i + 1, -1)
      IN  Scan(str, Emit(str, s, wSNBT, Substr(str, i, e - i), e, oob),
               oob, states)
    ELSE Scan(str, [s EXCEPT !.i = i + 1], oob, states)

RECURSIVE SplitFrom(_, _, _)
SplitFrom(seq, k, cur) ==
  IF k > Len(seq) THEN <<cur>>
  ELSE IF seq[k] = "," THEN <<cur>> \o SplitFrom(seq, k + 1, <<>>)
  ELSE SplitFrom(seq, k + 1, Append(cur, seq[k]))

\* SplitStrWithPattern(form, ","): no piece for the empty string
SplitStrWithPattern(form) == IF form = <<>> THEN <<>> ELSE SplitFrom(form, 1, <<>>)

(***************************************************************************)
(* Blocks and the block registry.  A block is a name and a data value.     *)
(* The registry of the model holds stone, dirt, chest and the one-letter   *)
(* block s (so that generated strings name a block); grass_block is a      *)
(* Java-edition alias of grass, and w[waterlogged=true] a waterlogged      *)
(* alias of s.                                                             *)
(***************************************************************************)
INT_MIN == -2147483647 - 1

\* "no id / no data given" of RawBlock, mapped to 0 by RawBlock::getBlock
Unset == -2140000000

\* blockId of an entry resolved through the runtime palette
RuntimeId == -2140000001

\* blockId of an entry whose name is held in blockIdfunc
NamedId == -2140000002

Air == [name |-> Prefix \o <<"a", "i", "r">>, data |-> 0]

Water == [name |-> Prefix \o <<"w", "a", "t", "e", "r">>, data |-> 0]

nStone == Prefix \o <<"s", "t", "o", "n", "e">>

nDirt == Prefix \o <<"d", "i", "r", "t">>

nChest == Prefix \o <<"c", "h", "e", "s", "t">>

nS == Prefix \o <<"s">>

nGrass == Prefix \o <<"g", "r", "a", "s", "s">>

nGrassBlock == Prefix \o <<"g", "r", "a", "s", "s", "_", "b", "l", "o", "c", "k">>

sWaterlogged ==
  <<"w", "a", "t", "e", "r", "l", "o", "g", "g", "e", "d", "=", "t", "r", "u", "e">>

nWaterlogged == Prefix \o <<"w", "[">> \o sWaterlogged \o <<"]">>

\* Block::create(name, data): the state of the named block with that data
\* value, its default state when no data value is given
BlockCreate(name, data) == [name |-> name, data |-> IF data < 0 THEN 0 ELSE data]

\* Block::create(CompoundTag::fromSNBT(text)): the block the tag describes
TagBlock(text) == [name |-> text, data |-> 0]

\* getBlockPalette().getBlock(runtimeId)
PaletteBlock(id) == [name |-> <<"r", "t">>, data |-> id]

isBEBlock(name) == name \in {nStone, nDirt, nChest, nS, nGrass, Air.name}

isJEBlock(name) == name \in {nGrassBlock, nWaterlogged, nStone}

\* getJavaBlockMap()[name]
JavaBlock(name) ==
  CASE name = nGrassBlock -> [name |-> nGrass, data |-> 0]
    [] name = nWaterlogged -> [name |-> nS, data |-> 1]
    [] OTHER -> [name |-> name, data |-> 0]

\* getBlockName(id): the name of a legacy numeric id
getBlockName(id) ==
  CASE id = 1 -> nStone
    [] id = 3 -> nDirt
    [] id = 5 -> nS
    [] id = 54 -> nChest
    [] OTHER -> Air.name

\* getBlockId(name): the legacy numeric id of a name
getBlockId(name) ==
  CASE name = nStone -> 1
    [] name = nDirt -> 3
    [] name = nS -> 5
    [] name = nChest -> 54
    [] OTHER -> 0

\* Block::hasBlockEntity()
hasBlockEntity(block) == block.name \in {nChest, <<"{", "c", "}">>}

(***************************************************************************)
(* Entries of a compiled pattern.                                          *)
(***************************************************************************)
\* Percents as constructed: weight 1, in tenths
NewPercents == [isNum |-> TRUE, value |-> 10, function |-> <<"1">>]

\* RawBlock as constructed; hasBE is the value its declaration gives it
NewRawBlock(hasBE) ==
  [constBlock |-> TRUE, block |-> Air, exBlock |-> Air, hasBE |-> hasBE,
   blockEntity |-> <<>>, blockId |-> Unset, blockData |-> Unset,
   blockIdfunc |-> <<"0">>, blockDatafunc |-> <<"0">>]

(***************************************************************************)
(* The term loop of the constructors.  list is TRUE for BlockListPattern   *)
(* and FALSE for BlockPattern.                                             *)
(***************************************************************************)
\* raw[p]; reading past the end of the vector is undefined behaviour
RawAt(raw, p) == IF p < Len(raw) THEN raw[p + 1] ELSE <<>>

RECURSIVE Groups(_, _, _)
\* the back-to-back {..} groups inside an outer pair of braces
Groups(t, i2, acc) ==
  IF i2 < Len(t) - 1
    THEN IF t[i2 + 1] = "{"
           THEN LET e == BraceEnd(t, i2 + 1, -1)
                IN  Groups(t, e + 1, Append(acc, Substr(t, i2, e - i2)))
           ELSE Groups(t, i2 + 1, acc)
    ELSE acc

\* PercentStep that gives a term without '%' the weight 0
PercentStep_ZeroDefault(term0, raw, rawPtr) ==
  LET hasPct == Find(term0, <<"%">>)
      tok == RawAt(raw, rawPtr)
  IN  IF ~hasPct
        THEN [percent |-> [NewPercents EXCEPT !.value = 0], rawPtr |-> rawPtr,
              term |-> <<"%">> \o term0, thrown |-> FALSE, ub |-> FALSE]
        ELSE [percent |->
                IF Find(term0, wNum \o <<"%">>)
                  THEN [NewPercents EXCEPT !.value = StodVal(tok)]
                  ELSE [NewPercents EXCEPT !.isNum = FALSE, !.function = tok],
              rawPtr |-> rawPtr + 1,
              term |-> term0,
              thrown |-> Find(term0, wNum \o <<"%">>) /\ ~StodOK(tok),
              ub |-> rawPtr >= Len(raw)]

\* the weight of a term: a '%' in the term takes the next raw token
PercentStep(term0, raw, rawPtr) ==
  LET hasPct == Find(term0, <<"%">>)
      tok == RawAt(raw, rawPtr)
  IN  IF ~hasPct
        THEN [percent |-> NewPercents, rawPtr |-> rawPtr,
              term |-> <<"%">> \o term0, thrown |-> FALSE, ub |-> FALSE]
        ELSE [percent |->
                IF Find(term0, wNum \o <<"%">>)
                  THEN [NewPercents EXCEPT !.value = StodVal(tok)]
                  ELSE [NewPercents EXCEPT !.isNum = FALSE, !.function = tok],
              rawPtr |-> rawPtr + 1,
              term |-> term0,
              thrown |-> Find(term0, wNum \o <<"%">>) /\ ~StodOK(tok),
              ub |-> rawPtr >= Len(raw)]

\* the {..} entry: one tag, or an outer pair of braces around up to three
SnbtStep(rb0, tok) ==
  LET rb == [rb0 EXCEPT !.blockId = INT_MIN, !.blockData = INT_MIN]
      gs == Groups(tok, 1, <<>>)
  IN  IF At(tok, 0, NUL) = "{" /\ At(tok, 1, NUL) = "{"
        THEN IF gs = <<>>
               THEN [rb |-> rb, ub |-> TRUE]
               ELSE [rb |-> [rb EXCEPT
                        !.block = TagBlock(gs[1]),
                        !.exBlock = IF Len(gs) > 1 THEN TagBlock(gs[2]) ELSE @,
                        !.blockEntity = IF Len(gs) > 2 THEN gs[3] ELSE @],
                     ub |-> FALSE]
        ELSE [rb |-> [rb EXCEPT !.block = TagBlock(tok)], ub |-> FALSE]

\* the block of a term; done is the `continue` of the loop
BlockStep(list, term, raw, rawPtr, rb0) ==
  LET tok == RawAt(raw, rawPtr)
      r(rb, n, done, thrown, ub) ==
        [rb |-> rb, rawPtr |-> rawPtr + n, done |-> done, thrown |-> thrown,
         ub |-> ub \/ (n > 0 /\ rawPtr >= Len(raw))]
  IN
  IF Find(term, <<"%">> \o wNum) THEN
    IF list
      THEN r([rb0 EXCEPT !.blockId = NamedId,
                         !.blockIdfunc = getBlockName(StoiVal(tok))],
             1, FALSE, ~StoiOK(tok), FALSE)
      ELSE r([rb0 EXCEPT !.blockId = StoiVal(tok)], 1, FALSE, ~StoiOK(tok), FALSE)
  ELSE IF Find(term, <<"%">> \o wBlock) THEN
    IF At(tok, 0, NUL) = "r" /\ At(tok, 1, NUL) = "t" /\ isdigit(At(tok, 2, NUL))
      THEN r([rb0 EXCEPT !.block = PaletteBlock(StoiVal(Substr(tok, 2, Len(tok))))],
             1, TRUE, FALSE, FALSE)
      ELSE LET tmpName == IF Find(tok, Prefix) THEN tok ELSE Prefix \o tok
           IN  IF list
                 THEN r([rb0 EXCEPT !.blockId = NamedId, !.blockIdfunc = tmpName],
                        1, FALSE, FALSE, FALSE)
                 ELSE r([rb0 EXCEPT !.blockId = getBlockId(tmpName)],
                        1, FALSE, FALSE, FALSE)
  ELSE IF Find(term, <<"%">> \o wRtfunciton) THEN
    r([rb0 EXCEPT !.blockId = RuntimeId, !.constBlock = FALSE, !.blockIdfunc = tok],
      1, TRUE, FALSE, FALSE)
  ELSE IF Find(term, <<"%">> \o wFunciton) THEN
    r([rb0 EXCEPT !.blockId = INT_MIN, !.constBlock = FALSE, !.blockIdfunc = tok],
      1, FALSE, FALSE, FALSE)
  ELSE IF Find(term, <<"%">> \o wSNBT) THEN
    r(SnbtStep(rb0, tok).rb, 1, TRUE, FALSE, SnbtStep(rb0, tok).ub)
  ELSE r(rb0, 0, FALSE, FALSE, FALSE)

\* DataStep that consumes a numeric suffix without storing it
DataStep_Dropped(term, raw, rawPtr, rb0) ==
  LET tok == RawAt(raw, rawPtr)
  IN  IF Find(term, <<":">> \o wNum)
        THEN [rb |-> rb0, rawPtr |-> rawPtr + 1, thrown |-> ~StoiOK(tok),
              ub |-> rawPtr >= Len(raw)]
      ELSE IF Find(term, <<":">> \o wFunciton)
        THEN [rb |-> [rb0 EXCEPT !.blockData = INT_MIN, !.constBlock = FALSE,
                                 !.blockDatafunc = tok],
              rawPtr |-> rawPtr + 1, thrown |-> FALSE, ub |-> rawPtr >= Len(raw)]
      ELSE [rb |-> rb0, rawPtr |-> rawPtr, thrown |-> FALSE, ub |-> FALSE]

\* the ':' data suffix of a term
DataStep(term, raw, rawPtr, rb0) ==
  LET tok == RawAt(raw, rawPtr)
  IN  IF Find(term, <<":">> \o wNum)
        THEN [rb |-> [rb0 EXCEPT !.blockData = StoiVal(tok)],
              rawPtr |-> rawPtr + 1, thrown |-> ~StoiOK(tok),
              ub |-> rawPtr >= Len(raw)]
      ELSE IF Find(term, <<":">> \o wFunciton)
        THEN [rb |-> [rb0 EXCEPT !.blockData = INT_MIN, !.constBlock = FALSE,
                                 !.blockDatafunc = tok],
              rawPtr |-> rawPtr + 1, thrown |-> FALSE, ub |-> rawPtr >= Len(raw)]
      ELSE [rb |-> rb0, rawPtr |-> rawPtr, thrown |-> FALSE, ub |-> FALSE]

\* the constant block of an entry with no formula
ConstStep(list, rb) ==
  IF ~rb.constBlock THEN rb
  ELSE IF ~list
    THEN [rb EXCEPT !.block = BlockCreate(getBlockName(rb.blockId), rb.blockData)]
  ELSE IF isBEBlock(rb.blockIdfunc)
    THEN [rb EXCEPT !.block = BlockCreate(rb.blockIdfunc, rb.blockData)]
  ELSE IF isJEBlock(rb.blockIdfunc)
    THEN [rb EXCEPT !.block = JavaBlock(rb.blockIdfunc),
                    !.exBlock = IF Find(rb.blockIdfunc, sWaterlogged)
                                  THEN Water ELSE @,
                    !.blockIdfunc = JavaBlock(rb.blockIdfunc).name,
                    !.blockData = JavaBlock(rb.blockIdfunc).data]
  ELSE rb

\* one pass of the term loop: the entry and the raw-token cursor after it
CompileTerm(list, term0, raw, rawPtr, hasBE) ==
  LET ps == PercentStep(term0, raw, rawPtr)
      bs == BlockStep(list, ps.term, raw, ps.rawPtr, NewRawBlock(hasBE))
      ds == DataStep(ps.term, raw, bs.rawPtr, bs.rb)
  IN  IF ps.thrown \/ bs.thrown \/ bs.done
        THEN [percent |-> ps.percent, rawBlock |-> bs.rb, rawPtr |-> bs.rawPtr,
              thrown |-> ps.thrown \/ bs.thrown, ub |-> ps.ub \/ bs.ub]
        ELSE [percent |-> ps.percent, rawBlock |-> ConstStep(list, ds.rb),
              rawPtr |-> ds.rawPtr, thrown |-> ds.thrown,
              ub |-> ps.ub \/ bs.ub \/ ds.ub]

RECURSIVE CompileTerms(_, _, _, _, _, _)
\* the term loop from term iter on; acc is the pattern built so far
CompileTerms(list, blockList, raw, iter, hasBE, acc) ==
  IF iter > Len(blockList) \/ acc.status # "compiled" THEN acc
  ELSE LET t == CompileTerm(list, blockList[iter], raw, acc.rawPtr, hasBE)
       IN  CompileTerms(list, blockList, raw, iter + 1, hasBE,
             [acc EXCEPT
                !.percents = Append(@, t.percent),
                !.rawBlocks = Append(@, t.rawBlock),
                !.rawPtr = t.rawPtr,
                !.cursors = Append(@, t.rawPtr),
                !.status = IF t.ub THEN "undefined"
                           ELSE IF t.thrown THEN "invalid_argument" ELSE @])

(***************************************************************************)
(* The expression evaluator, as the engine uses it: a formula and the      *)
(* variable x of the context give a number (in tenths) or an error.        *)
(***************************************************************************)
fX == <<"x">>

fNegX == <<"-", "x">>

EvalOK(f) == f \in {fX, fNegX} \/ (StodOK(f) /\ \A k \in 1..Len(f) : f[k] \in Digits \cup {"-", "."})

Eval(f, x) == IF f = fX THEN x ELSE IF f = fNegX THEN -x ELSE StodVal(f)

\* round(): to the nearest integer, halves away from zero (argument in tenths)
Round(t) == IF t >= 0 THEN (t + 5) \div 10 ELSE -((5 - t) \div 10)

\* Percents::getPercents
getPercents(p, x) ==
  IF p.isNum THEN [thrown |-> FALSE, v |-> p.value]
  ELSE [thrown |-> ~EvalOK(p.function), v |-> Eval(p.function, x)]

(***************************************************************************)
(* The weighted selector.  The draw u stands for RNG::rand<double>() =     *)
(* u / RandSteps; random <= sum is compared as u * total <= sum * RandSteps.*)
(* Weights are whole tenths, so that total < 1e-32 exactly when total < 1. *)
(***************************************************************************)
\* weights[i] = std::max(getPercents(...), 0.0)
Weights(percents, x) ==
  [i \in 1..Len(percents) |-> Max(getPercents(percents[i], x).v, 0)]

RECURSIVE SumTo(_, _)
SumTo(w, n) == IF n = 0 THEN 0 ELSE w[n] + SumTo(w, n - 1)

RECURSIVE PickLoop_Strict(_, _, _, _, _)
\* PickLoop with random < sum in place of random <= sum
PickLoop_Strict(w, total, u, i, sum) ==
  IF i < Len(w) - 1
    THEN IF u * total < (sum + w[i + 1]) * RandSteps
           THEN i + 1
           ELSE PickLoop_Strict(w, total, u, i + 1, sum + w[i + 1])
    ELSE Len(w)

RECURSIVE PickLoop_NoRemainder(_, _, _, _, _)
\* PickLoop that returns nullptr, not the last entry, after the loop
PickLoop_NoRemainder(w, total, u, i, sum) ==
  IF i < Len(w) - 1
    THEN IF u * total <= (sum + w[i + 1]) * RandSteps
           THEN i + 1
           ELSE PickLoop_NoRemainder(w, total, u, i + 1, sum + w[i + 1])
    ELSE 0

RECURSIVE PickLoop(_, _, _, _, _)
\* for (i = 0; i < blockNum - 1; ++i) { sum += weights[i]; if (random <= sum) .. }
PickLoop(w, total, u, i, sum) ==
  IF i < Len(w) - 1
    THEN IF u * total <= (sum + w[i + 1]) * RandSteps
           THEN i + 1
           ELSE PickLoop(w, total, u, i + 1, sum + w[i + 1])
    ELSE Len(w)

\* getRawBlock without the test of total against the threshold
getRawBlock_NoThreshold(percents, x, u) ==
  LET w == Weights(percents, x)
      total == SumTo(w, Len(w))
  IN  IF \E i \in 1..Len(percents) : getPercents(percents[i], x).thrown
        THEN [thrown |-> TRUE, idx |-> 0]
      ELSE [thrown |-> FALSE, idx |-> PickLoop(w, total, u, 0, 0)]

\* getRawBlock: the 1-based index of the entry returned, 0 for nullptr
getRawBlock(percents, x, u) ==
  LET w == Weights(percents, x)
      total == SumTo(w, Len(w))
  IN  IF \E i \in 1..Len(percents) : getPercents(percents[i], x).thrown
        THEN [thrown |-> TRUE, idx |-> 0]
      ELSE IF total < 1
        THEN [thrown |-> FALSE, idx |-> 0]
      ELSE [thrown |-> FALSE, idx |-> PickLoop(w, total, u, 0, 0)]

(***************************************************************************)
(* RawBlock::getBlock of the two classes.                                  *)
(***************************************************************************)
\* the data value of a non-constant entry
ResolveData(rb, x) ==
  IF rb.blockData = INT_MIN THEN Round(Eval(rb.blockDatafunc, x))
  ELSE IF rb.blockData = Unset THEN 0 ELSE rb.blockData

\* BlockListPattern.cpp
List_getBlock(rb, x) ==
  IF rb.constBlock THEN [thrown |-> FALSE, block |-> rb.block, rb |-> rb]
  ELSE IF rb.blockId = RuntimeId
    THEN [thrown |-> ~EvalOK(rb.blockIdfunc),
          block |-> PaletteBlock(Round(Eval(rb.blockIdfunc, x))), rb |-> rb]
  ELSE
    LET blockName ==
          IF rb.blockId = NamedId THEN rb.blockIdfunc
          ELSE IF rb.blockId = INT_MIN
            THEN getBlockName(Round(Eval(rb.blockIdfunc, x)))
          ELSE IF rb.blockId = Unset THEN getBlockName(0)
          ELSE getBlockName(rb.blockId)
    IN  [thrown |-> \/ (rb.blockId = INT_MIN /\ ~EvalOK(rb.blockIdfunc))
                    \/ (rb.blockData = INT_MIN /\ ~EvalOK(rb.blockDatafunc)),
         block |-> BlockCreate(blockName, ResolveData(rb, x)), rb |-> rb]

\* BlockPattern.cpp: the test `blockId = -2140000001` is an assignment, so a
\* non-constant entry has its blockId overwritten and always takes this path
Block_getBlock(rb, x) ==
  IF rb.constBlock THEN [thrown |-> FALSE, block |-> rb.block, rb |-> rb]
  ELSE [thrown |-> ~EvalOK(rb.blockIdfunc),
        block |-> PaletteBlock(Round(Eval(rb.blockIdfunc, x))),
        rb |-> [rb EXCEPT !.blockId = RuntimeId]]

(***************************************************************************)
(* getBlock of the two pattern classes.  The result is                     *)
(*   thrown     an evaluator exception left the call                       *)
(*   idx        the entry selected, 0 for nullptr from getRawBlock         *)
(*   block      the block returned, NullBlock for nullptr                  *)
(*   nullDeref  the call went through a null RawBlock pointer              *)
(*   crashed    the process died in the call                               *)
(*   pat        the pattern after the call                                 *)
(***************************************************************************)
\* nullptr as a Block*
NullBlock == [name |-> <<>>, data |-> -1]

\* BlockListPattern::getBlock(variables, funcs)
BlockListPattern_getBlock(p, x, u) ==
  LET sel == getRawBlock(p.percents, x, u)
      g == List_getBlock(p.rawBlocks[sel.idx], x)
      r == [thrown |-> FALSE, idx |-> sel.idx, block |-> NullBlock,
            nullDeref |-> FALSE, crashed |-> FALSE, pat |-> p]
  IN  IF sel.thrown THEN [r EXCEPT !.thrown = TRUE]
      ELSE IF sel.idx = 0 THEN r
      ELSE IF g.thrown THEN [r EXCEPT !.thrown = TRUE]
      ELSE [r EXCEPT !.block = g.block]

\* what a call of RawBlock::getBlock on a null pointer can do: the read of
\* constBlock at a null address is undefined; the process dies, or the
\* call comes back with whatever it found
NullReads ==
  {[crashed |-> TRUE, block |-> NullBlock],
   [crashed |-> FALSE, block |-> NullBlock],
   [crashed |-> FALSE, block |-> Air]}

\* BlockPattern::getBlock(variables, funcs): the result of getRawBlock is
\* dereferenced without a test; nr is the outcome of a null dereference
BlockPattern_getBlock(p, x, u, nr) ==
  LET sel == getRawBlock(p.percents, x, u)
      g == Block_getBlock(p.rawBlocks[sel.idx], x)
      p1 == [p EXCEPT !.rawBlocks[sel.idx] = g.rb]
      r == [thrown |-> FALSE, idx |-> sel.idx, block |-> NullBlock,
            nullDeref |-> FALSE, crashed |-> FALSE, pat |-> p]
  IN  IF sel.thrown THEN [r EXCEPT !.thrown = TRUE]
      ELSE IF sel.idx = 0
        THEN [r EXCEPT !.nullDeref = TRUE, !.crashed = nr.crashed,
                       !.block = nr.block]
      ELSE IF g.thrown THEN [r EXCEPT !.thrown = TRUE, !.pat = p1]
      ELSE [r EXCEPT !.block = g.block, !.pat = p1]

(***************************************************************************)
(* The constructors.  A pattern is                                         *)
(*   cls        "BlockListPattern" or "BlockPattern"                       *)
(*   type       BLOCKLIST or HAND (Pattern::PatternType)                   *)
(*   status     "compiled"; "invalid_argument" when std::stoi or std::stod *)
(*              threw out of the constructor; "hang" when the tokenizer    *)
(*              never returned; "undefined" after an out-of-range vector   *)
(*              access; "none" before construction                         *)
(*   percents, rawBlocks   the entries (blockNum is their length)          *)
(*   rawPtr     the raw-token cursor after the term loop                   *)
(*   cursors    the raw-token cursor after each term                       *)
(*   nRaw       the number of raw tokens of the tokenizer                  *)
(*   maxRead    the largest index of str the tokenizer read                *)
(*   clipboard  TRUE when the clipboard pointer is not nullptr             *)
(*   bias       the clipboard bias                                         *)
(***************************************************************************)
sHand == <<"#", "h", "a", "n", "d">>

sClipboard == <<"#", "c", "l", "i", "p", "b", "o", "a", "r", "d">>

sAtC == <<"@", "c">>

Origin == <<0, 0, 0>>

NoPattern ==
  [cls |-> "none", type |-> "BLOCKLIST", status |-> "none", percents |-> <<>>,
   rawBlocks |-> <<>>, rawPtr |-> 0, cursors |-> <<>>, nRaw |-> 0,
   maxRead |-> 0, clipboard |-> FALSE, bias |-> Origin]

\* the tokenizer and the term loop shared by the two constructors
CompileList(cls, str, oob, hasBE) ==
  LET list == (cls = "BlockListPattern")
      s == Scan(str, ScanInit, oob, list)
      start == [NoPattern EXCEPT !.cls = cls, !.status = "compiled",
                                 !.nRaw = Len(s.raw), !.maxRead = s.maxRead]
  IN  IF s.hang
        THEN [start EXCEPT !.status = "hang"]
        ELSE CompileTerms(list, SplitStrWithPattern(s.form), s.raw, 1, hasBE, start)

\* the constructor without the "#hand" case
BlockListPattern_ctor_NoHand(str, hand, oob, hasBE) ==
  CompileList("BlockListPattern", str, oob, hasBE)

\* BlockListPattern::BlockListPattern(str, xuid); hand is the block of the
\* item the player holds: [found |-> player != nullptr, block |-> a block,
\* or Air with hasBlock FALSE when getBlock() is nullptr]
BlockListPattern_ctor(str, hand, oob, hasBE) ==
  IF str = sHand
    THEN [NoPattern EXCEPT
            !.cls = "BlockListPattern", !.type = "HAND", !.status = "compiled",
            !.percents = <<NewPercents>>,
            !.rawBlocks =
              <<IF hand.found /\ hand.hasBlock
                  THEN [NewRawBlock(hasBE) EXCEPT !.block = hand.block]
                  ELSE NewRawBlock(hasBE)>>]
    ELSE CompileList("BlockListPattern", str, oob, hasBE)

\* CenterBlock on the block box [min, max] instead of the real box
CenterBlock_BlockBox(box) ==
  [a \in 1..3 |-> (box.min[a] + box.max[a]) \div 2]

\* Region::getCenter().toBlockPos() of a bounding box: the centre of the
\* real box [min, max + 1], floored
CenterBlock(box) ==
  [a \in 1..3 |-> (box.min[a] + box.max[a] + 1) \div 2]

RECURSIVE DigitsEnd(_, _)
DigitsEnd(str, i) ==
  IF i < Len(str) /\ isdigit(str[i + 1]) THEN DigitsEnd(str, i + 1) ELSE i

RECURSIVE PosList(_, _, _)
\* the signed integers found anywhere in the string; a lone '-' makes
\* std::stoi throw
PosList(str, mi, acc) ==
  IF mi >= Len(str) THEN acc
  ELSE IF str[mi + 1] = "-" \/ isdigit(str[mi + 1])
    THEN LET e == DigitsEnd(str, mi + 1)
             tok == Substr(str, mi, e - mi)
         IN  IF StoiOK(tok)
               THEN PosList(str, e + 1, [acc EXCEPT !.list = Append(@, StoiVal(tok))])
               ELSE [acc EXCEPT !.thrown = TRUE]
    ELSE PosList(str, mi + 1, acc)

\* the constructor without the test of playerData->clipboard.used
BlockPattern_ctor_NoUsedTest(str, region, used, oob, hasBE) ==
  IF Find(str, sClipboard)
    THEN LET base == IF region.none THEN Origin
                     ELSE IF Find(str, sAtC) THEN CenterBlock(region)
                     ELSE region.min
             pl == PosList(str, 0, [list |-> <<>>, thrown |-> FALSE])
             n == Len(pl.list)
         IN  [NoPattern EXCEPT
                !.cls = "BlockPattern",
                !.status = IF pl.thrown THEN "invalid_argument" ELSE "compiled",
                !.clipboard = TRUE,
                !.bias = [a \in 1..3 |->
                            IF a <= n THEN base[a] - pl.list[a] ELSE base[a]]]
    ELSE CompileList("BlockPattern", str, oob, hasBE)

\* BlockPattern::BlockPattern(str, xuid, region); region is a bounding box
\* or has none |-> TRUE for nullptr; used is playerData->clipboard.used
BlockPattern_ctor(str, region, used, oob, hasBE) ==
  IF Find(str, sClipboard)
    THEN IF ~used
           THEN [NoPattern EXCEPT !.cls = "BlockPattern", !.status = "compiled"]
           ELSE LET base == IF region.none THEN Origin
                            ELSE IF Find(str, sAtC) THEN CenterBlock(region)
                            ELSE region.min
                    pl == PosList(str, 0, [list |-> <<>>, thrown |-> FALSE])
                    n == Len(pl.list)
                IN  [NoPattern EXCEPT
                       !.cls = "BlockPattern",
                       !.status = IF pl.thrown THEN "invalid_argument" ELSE "compiled",
                       !.clipboard = TRUE,
                       !.bias = [a \in 1..3 |->
                                   IF a <= n THEN base[a] - pl.list[a] ELSE base[a]]]
    ELSE CompileList("BlockPattern", str, oob, hasBE)

(***************************************************************************)
(* The world and setBlock.  ext holds what the server answers during one   *)
(* call: res, the result of setBlockSimple; beAfter, whether the placed    *)
(* block has a block entity at the position afterwards; nbtOk, the result  *)
(* of BlockActor::setNbt; loaded, whether BlockActor::loadStatic returned  *)
(* a block entity; stale, whether a read through a dangling clipboard      *)
(* pointer still finds the old contents.                                   *)
(***************************************************************************)
NoBE == [present |-> FALSE, nbt |-> <<>>]

AirCell == [block |-> Air, ex |-> Air, be |-> NoBE]

\* PlayerData::setBlockSimple: the block and the companion are written when
\* the placement succeeds
setBlockSimple(w, pos, block, exBlock, ext) ==
  IF ext.res
    THEN [w EXCEPT ![pos] =
            [block |-> block, ex |-> exBlock,
             be |-> IF hasBlockEntity(block) /\ ext.beAfter
                      THEN [present |-> TRUE, nbt |-> <<>>] ELSE NoBE]]
    ELSE w

\* what a call leaves behind: the world, the pattern, the value returned
\* (thrown: an exception left the call instead), the entry selected and the
\* kinds of write made
Outcome(w, p, ret, thrown, idx, writes) ==
  [world |-> w, pat |-> p, ret |-> ret, thrown |-> thrown, idx |-> idx,
   writes |-> writes]

\* the block-entity step of BlockListPattern::setBlock, after the placement
List_BlockEntityStep(w, p, idx, pos, ext) ==
  LET rb == p.rawBlocks[idx]
      placed == IF ext.res THEN {"block", "companion"} ELSE {}
  IN  IF w[pos].be.present
        THEN Outcome(IF ext.nbtOk
                       THEN [w EXCEPT ![pos].be.nbt = rb.blockEntity] ELSE w,
                     p, ext.nbtOk, FALSE, idx,
                     placed \cup (IF ext.nbtOk THEN {"blockEntity"} ELSE {}))
        ELSE Outcome(IF ext.loaded
                       THEN [w EXCEPT ![pos].be =
                               [present |-> TRUE, nbt |-> rb.blockEntity]]
                       ELSE w,
                     p, ext.res, FALSE, idx,
                     placed \cup (IF ext.loaded THEN {"blockEntity"} ELSE {}))

\* List_setBlock without the test block->hasBlockEntity()
List_setBlock_NoSupportTest(w, p, x, u, pos, ext) ==
  LET sel == getRawBlock(p.percents, x, u)
      rb == p.rawBlocks[sel.idx]
      g == List_getBlock(rb, x)
      w1 == setBlockSimple(w, pos, g.block, rb.exBlock, ext)
  IN  IF sel.thrown THEN Outcome(w, p, FALSE, TRUE, 0, {})
      ELSE IF sel.idx = 0 THEN Outcome(w, p, FALSE, FALSE, 0, {})
      ELSE IF g.thrown THEN Outcome(w, p, FALSE, TRUE, sel.idx, {})
      ELSE IF rb.hasBE /\ rb.blockEntity # <<>>
        THEN List_BlockEntityStep(w1, p, sel.idx, pos, ext)
      ELSE Outcome(w1, p, ext.res, FALSE, sel.idx,
                   IF ext.res THEN {"block", "companion"} ELSE {})

\* BlockListPattern::setBlock(variables, funcs, blockSource, pos)
List_setBlock(w, p, x, u, pos, ext) ==
  LET sel == getRawBlock(p.percents, x, u)
      rb == p.rawBlocks[sel.idx]
      g == List_getBlock(rb, x)
      w1 == setBlockSimple(w, pos, g.block, rb.exBlock, ext)
  IN  IF sel.thrown THEN Outcome(w, p, FALSE, TRUE, 0, {})
      ELSE IF sel.idx = 0 THEN Outcome(w, p, FALSE, FALSE, 0, {})
      ELSE IF g.thrown THEN Outcome(w, p, FALSE, TRUE, sel.idx, {})
      ELSE IF rb.hasBE /\ hasBlockEntity(g.block) /\ rb.blockEntity # <<>>
        THEN List_BlockEntityStep(w1, p, sel.idx, pos, ext)
      ELSE Outcome(w1, p, ext.res, FALSE, sel.idx,
                   IF ext.res THEN {"block", "companion"} ELSE {})

\* the block stored in a clipboard cell (the contents are a fixed chequer)
ClipCell(cell) ==
  IF (cell[1] + cell[2] + cell[3]) % 2 = 0
    THEN [name |-> nStone, data |-> 0] ELSE [name |-> nDirt, data |-> 0]

\* pos - bias: the clipboard cell setBlock asks for
ClipRead(p, pos) == [a \in 1..3 |-> pos[a] - p.bias[a]]

\* clipboard->getSetLoop(pos - bias).setBlock(pos, ...): the block stored in
\* the cell is placed.  clip.alive is FALSE once the Clipboard the pointer
\* was taken from has been erased: the read is then undefined, and finds
\* the old contents or nothing.
Clip_setBlock(w, p, clip, pos, ext) ==
  LET cell == ClipRead(p, pos)
      w1 == setBlockSimple(w, pos, ClipCell(cell), Air, ext)
  IN  IF clip.alive \/ ext.stale
        THEN Outcome(w1, p, ext.res, FALSE, 0,
                     IF ext.res THEN {"block", "companion"} ELSE {})
        ELSE Outcome(w, p, FALSE, FALSE, 0, {})

\* BlockPattern::setBlock(variables, funcs, blockSource, pos)
Block_setBlock(w, p, clip, x, u, pos, ext) ==
  LET sel == getRawBlock(p.percents, x, u)
      rb == p.rawBlocks[sel.idx]
      g == Block_getBlock(rb, x)
      p1 == [p EXCEPT !.rawBlocks[sel.idx] = g.rb]
      w1 == setBlockSimple(w, pos, g.block, rb.exBlock, ext)
      placed == IF ext.res THEN {"block", "companion"} ELSE {}
  IN  IF p.clipboard THEN Clip_setBlock(w, p, clip, pos, ext)
      ELSE IF sel.thrown THEN Outcome(w, p, FALSE, TRUE, 0, {})
      ELSE IF sel.idx = 0 THEN Outcome(w, p, FALSE, FALSE, 0, {})
      ELSE IF g.thrown THEN Outcome(w, p1, FALSE, TRUE, sel.idx, {})
      ELSE IF /\ rb.hasBE /\ hasBlockEntity(g.block)
              /\ w1[pos].be.present /\ rb.blockEntity # <<>>
        THEN Outcome(IF ext.nbtOk
                       THEN [w1 EXCEPT ![pos].be.nbt = rb.blockEntity] ELSE w1,
                     p1, TRUE, FALSE, sel.idx,
                     placed \cup (IF ext.nbtOk THEN {"blockEntity"} ELSE {}))
      ELSE Outcome(w1, p1, TRUE, FALSE, sel.idx, placed)

(***************************************************************************)
(* State.                                                                  *)
(*   input  the string given to the constructor                            *)
(*   pat    the pattern (NoPattern before construction)                    *)
(*   world  per position: the block, the companion block and the block     *)
(*          entity                                                         *)
(*   env    what the constructors and setBlock read from the server: the   *)
(*          player's hand, the clipboard, the selected region, and hasBE,  *)
(*          the value RawBlock's declaration gives the field               *)
(*   call   the last operation: its arguments and what it returned         *)
(***************************************************************************)
NoCall == [op |-> "none"]

NoHand == [found |-> FALSE, hasBlock |-> FALSE, block |-> Air]

NoRegion == [none |-> TRUE, min |-> Origin, max |-> Origin]

NoEnv ==
  [hand |-> NoHand, hasBE |-> FALSE, region |-> NoRegion,
   clip |-> [used |-> FALSE, alive |-> FALSE, cells |-> <<>>]]

NoWorld == <<>>

\* the values of the context variable x, in tenths
XValues == {-10, 0, 10}

(***************************************************************************)
(* SpecSelect: the weighted selector on every weight list of up to         *)
(* MaxEntries entries.                                                     *)
(***************************************************************************)
PercentChoices ==
  {[NewPercents EXCEPT !.value = v] : v \in {-10, 0, 5, 10}}
    \cup {[NewPercents EXCEPT !.isNum = FALSE, !.function = f] : f \in {fX, fNegX}}

PercentLists == UNION {[1..n -> PercentChoices] : n \in 0..MaxEntries}

SelInit ==
  /\ input = <<>>
  /\ \E ps \in PercentLists :
       pat = [NoPattern EXCEPT
                !.cls = "BlockListPattern", !.status = "compiled",
                !.percents = ps,
                !.rawBlocks = [i \in 1..Len(ps) |-> NewRawBlock(FALSE)]]
  /\ world = NoWorld
  /\ env = NoEnv
  /\ call = NoCall

\* one call of getRawBlock with context x and draw u
Select ==
  \E x \in XValues, u \in 0..(RandSteps - 1) :
    LET r == getRawBlock(pat.percents, x, u)
    IN  /\ call' = [op |-> "getRawBlock", x |-> x, u |-> u,
                    thrown |-> r.thrown, idx |-> r.idx]
        /\ UNCHANGED <<input, pat, world, env>>

SelNext == Select

SpecSelect == SelInit /\ [][SelNext]_vars

(***************************************************************************)
(* SpecCompile: the two constructors on sample strings and on every string *)
(* of up to MaxLen characters of GenAlphabet.                              *)
(***************************************************************************)
GenAlphabet == {"s", "5", "'", "{", "}", ",", "%", ":"}

Generated == UNION {[1..n -> GenAlphabet] : n \in 0..MaxLen}

sStone == <<"s", "t", "o", "n", "e">>

Samples ==
  { sStone,
    sStone \o <<":", "5">>,
    <<"{">> \o sStone,
    <<"{">> \o sStone \o <<"}">>,
    <<"'", "x">>,
    <<"r", "t", "'", "x">>,
    <<"r", "t", "'", "x", "'">>,
    <<"g", "r", "a", "s", "s", "_", "b", "l", "o", "c", "k", ":", "5">>,
    <<"g", "r", "a", "s", "s", "_", "b", "l", "o", "c", "k">>,
    <<"5", "0", "%">> \o sStone \o <<",", "5", "0", "%", "d", "i", "r", "t">>,
    <<"'", "x", "'", "%">> \o sStone \o <<",", "'", "-", "x", "'", "%", "d", "i", "r", "t">>,
    <<"'", "0", "'", "%">> \o sStone,
    sStone \o <<",", "d", "i", "r", "t", ",", "s">>,
    <<"{", "{", "c", "}", ",", "{", "s", "}", ",", "{", "n", "}", "}">>,
    <<"c", "h", "e", "s", "t">>,
    <<"w", "[">> \o sWaterlogged \o <<"]">>,
    <<"s", "[", "s">>,
    <<"r", "t", "5">>,
    <<"1">>,
    Prefix \o sStone \o <<":", "5">>,
    <<"'", "x", "'", ":", "'", "x", "'">>,
    <<"'", "x", "\\", "'", "x", "'">>,
    <<"r", "t", "'", "x", "\\", "'", "x", "'">>,
    <<"s", "r">>,
    <<"r", "t">> }

Inputs == Samples \cup Generated

\* what an out-of-bounds read of str may yield
OobChars == {NUL, "%", "]"}

CompInit ==
  /\ input \in Inputs
  /\ pat = NoPattern
  /\ world = NoWorld
  /\ env = NoEnv
  /\ call = NoCall

\* new BlockListPattern(input, xuid)
ConstructList ==
  /\ pat.status = "none"
  /\ \E oob \in OobChars :
       pat' = BlockListPattern_ctor(input, env.hand, oob, env.hasBE)
  /\ call' = [op |-> "construct"]
  /\ UNCHANGED <<input, world, env>>

\* new BlockPattern(input, xuid, region)
ConstructBlock ==
  /\ pat.status = "none"
  /\ \E oob \in OobChars :
       pat' = BlockPattern_ctor(input, env.region, env.clip.used, oob, env.hasBE)
  /\ call' = [op |-> "construct"]
  /\ UNCHANGED <<input, world, env>>

CompNext == ConstructList \/ ConstructBlock

SpecCompile == CompInit /\ [][CompNext]_vars

(***************************************************************************)
(* SpecApply: setBlock of the two classes on patterns compiled from        *)
(* sample strings, at one position of the world.                           *)
(***************************************************************************)
Positions == {0}

ApplySamples ==
  { sStone,
    <<"5", "0", "%">> \o sStone \o <<",", "5", "0", "%", "d", "i", "r", "t">>,
    <<"'", "x", "'", "%">> \o sStone \o <<",", "'", "-", "x", "'", "%", "d", "i", "r", "t">>,
    <<"'", "0", "'", "%">> \o sStone,
    <<"-", "1", "%">> \o sStone \o <<",", "0", "%", "d", "i", "r", "t">>,
    <<"{", "{", "c", "}", ",", "{", "s", "}", ",", "{", "n", "}", "}">>,
    <<"c", "h", "e", "s", "t">>,
    <<"'", "x", "'", ":", "'", "x", "'">>,
    <<"'", "x", "'">>,
    <<"r", "t", "'", "x", "'">>,
    <<"'", "s", "'">>,
    <<"'", "s", "'", "%">> \o sStone,
    <<"{", "{", "s", "}", ",", "{", "s", "}", ",", "{", "n", "}", "}">> }

\* the answers of the server during one call of setBlock
Exts ==
  [res : BOOLEAN, beAfter : BOOLEAN, nbtOk : BOOLEAN, loaded : BOOLEAN,
   stale : {FALSE}]

ApplyInit ==
  /\ input \in ApplySamples
  /\ pat = NoPattern
  /\ world = [p \in Positions |-> AirCell]
  /\ \E h \in BOOLEAN : env = [NoEnv EXCEPT !.hasBE = h]
  /\ call = NoCall

\* no call has ended the process
Alive == ~(call.op = "getBlock" /\ call.crashed)

\* the record of one setBlock call: the arguments, the answer of
\* setBlockSimple and the outcome
SetBlockCall(x, u, pos, ext, o) ==
  [op |-> "setBlock", x |-> x, pos |-> pos, res |-> ext.res,
   nbtOk |-> ext.nbtOk, loaded |-> ext.loaded, ret |-> o.ret, thrown |-> o.thrown, idx |-> o.idx,
   writes |-> o.writes]

\* pattern->setBlock(variables, funcs, blockSource, pos) on a BlockListPattern
ListSetBlock ==
  /\ pat.status = "compiled"
  /\ pat.cls = "BlockListPattern"
  /\ Alive
  /\ \E x \in XValues, u \in 0..(RandSteps - 1), pos \in DOMAIN world, ext \in Exts :
       LET o == List_setBlock(world, pat, x, u, pos, ext)
       IN  /\ world' = o.world
           /\ pat' = o.pat
           /\ call' = SetBlockCall(x, u, pos, ext, o)
  /\ UNCHANGED <<input, env>>

\* pattern->setBlock(variables, funcs, blockSource, pos) on a BlockPattern
BlockSetBlock ==
  /\ pat.status = "compiled"
  /\ pat.cls = "BlockPattern"
  /\ Alive
  /\ \E x \in XValues, u \in 0..(RandSteps - 1), pos \in DOMAIN world, ext \in Exts :
       LET o == Block_setBlock(world, pat, env.clip, x, u, pos, ext)
       IN  /\ world' = o.world
           /\ pat' = o.pat
           /\ call' = SetBlockCall(x, u, pos, ext, o)
  /\ UNCHANGED <<input, env>>

\* the record of one getBlock call
GetBlockCall(x, g) ==
  [op |-> "getBlock", x |-> x, thrown |-> g.thrown, idx |-> g.idx,
   block |-> g.block, nullDeref |-> g.nullDeref, crashed |-> g.crashed]

\* pattern->getBlock(variables, funcs) on a BlockListPattern
ListGetBlock ==
  /\ pat.status = "compiled"
  /\ pat.cls = "BlockListPattern"
  /\ Alive
  /\ \E x \in XValues, u \in 0..(RandSteps - 1) :
       LET g == BlockListPattern_getBlock(pat, x, u)
       IN  /\ pat' = g.pat
           /\ call' = GetBlockCall(x, g)
  /\ UNCHANGED <<input, world, env>>

\* pattern->getBlock(variables, funcs) on a BlockPattern
BlockGetBlock ==
  /\ pat.status = "compiled"
  /\ pat.cls = "BlockPattern"
  /\ Alive
  /\ \E x \in XValues, u \in 0..(RandSteps - 1), nr \in NullReads :
       LET g == BlockPattern_getBlock(pat, x, u, nr)
       IN  /\ pat' = g.pat
           /\ call' = GetBlockCall(x, g)
  /\ UNCHANGED <<input, world, env>>

ApplyNext ==
  \/ ConstructList
  \/ ConstructBlock
  \/ ListSetBlock
  \/ BlockSetBlock
  \/ ListGetBlock
  \/ BlockGetBlock

SpecApply == ApplyInit /\ [][ApplyNext]_vars

(***************************************************************************)
(* SpecClip: a "#clipboard" BlockPattern compiled against a region, the    *)
(* clearclipboard command, and setBlock.  The region takes every interval  *)
(* of 0..MaxCoord on the x axis and one of two intervals on the y and z    *)
(* axes; setBlock is called along the row y = 1, z = 0.                    *)
(***************************************************************************)
Coords == 0..MaxCoord

Regions ==
  {r \in {[none |-> FALSE, min |-> <<lo, y[1], z[1]>>, max |-> <<hi, y[2], z[2]>>] :
            lo \in Coords, hi \in Coords, y \in {<<1, 1>>, <<0, 1>>},
            z \in {<<0, 0>>, <<0, 3>>}} :
     r.min[1] <= r.max[1]}

RowPositions == {<<c, 1, 0>> : c \in Coords}

ClipSamples ==
  { sClipboard,
    sClipboard \o sAtC,
    sClipboard \o <<" ", "1", " ", "-", "1">> }

ClipInit ==
  /\ input \in ClipSamples
  /\ pat = NoPattern
  /\ world = [p \in RowPositions |-> AirCell]
  /\ \E r \in Regions, used \in BOOLEAN :
       env = [NoEnv EXCEPT !.region = r,
                           !.clip = [used |-> used, alive |-> TRUE, cells |-> <<>>]]
  /\ call = NoCall

\* the clearclipboard command: the player's Clipboard is erased
ClearClipboard ==
  /\ env.clip.used
  /\ env' = [env EXCEPT !.clip.used = FALSE, !.clip.alive = FALSE]
  /\ call' = [op |-> "clearclipboard"]
  /\ UNCHANGED <<input, pat, world>>

\* setBlock on the clipboard pattern at a position of the row
ClipSetBlock ==
  /\ pat.status = "compiled"
  /\ \E pos \in RowPositions, res \in BOOLEAN, stale \in BOOLEAN :
       LET ext == [res |-> res, beAfter |-> FALSE, nbtOk |-> FALSE,
                   loaded |-> FALSE, stale |-> stale]
           o == Block_setBlock(world, pat, env.clip, 0, 0, pos, ext)
       IN  /\ world' = o.world
           /\ pat' = o.pat
           /\ call' = [op |-> "setBlock", pos |-> pos, res |-> res,
                       ret |-> o.ret, writes |-> o.writes,
                       used |-> env.clip.used,
                       cell |-> ClipRead(pat, pos)]
  /\ UNCHANGED <<input, env>>

ClipNext == ConstructBlock \/ ClearClipboard \/ ClipSetBlock

SpecClip == ClipInit /\ [][ClipNext]_vars

(***************************************************************************)
(* SpecHand: a "#hand" BlockListPattern, the player changing the held      *)
(* item, and getBlock / setBlock.                                          *)
(***************************************************************************)
Hands ==
  {NoHand, [found |-> TRUE, hasBlock |-> FALSE, block |-> Air]}
    \cup {[found |-> TRUE, hasBlock |-> TRUE, block |-> [name |-> n, data |-> d]] :
            n \in {nStone, nDirt}, d \in {0, 1}}

HandInit ==
  /\ input = sHand
  /\ pat = NoPattern
  /\ world = [p \in Positions |-> AirCell]
  /\ \E h \in Hands : env = [NoEnv EXCEPT !.hand = h]
  /\ call = NoCall

\* new BlockListPattern("#hand", xuid); held is the player's hand when the
\* constructor ran
HandConstruct ==
  /\ pat.status = "none"
  /\ pat' = BlockListPattern_ctor(input, env.hand, NUL, env.hasBE)
  /\ call' = [op |-> "construct", held |-> env.hand]
  /\ UNCHANGED <<input, world, env>>

\* the player holds another item, or leaves
ChangeHand ==
  /\ \E h \in Hands \ {env.hand} : env' = [env EXCEPT !.hand = h]
  /\ UNCHANGED <<input, pat, world, call>>

\* pattern->getBlock(variables, funcs)
HandGetBlock ==
  /\ pat.status = "compiled"
  /\ \E x \in XValues, u \in 0..(RandSteps - 1) :
       LET g == BlockListPattern_getBlock(pat, x, u)
       IN  call' = [op |-> "getBlock", held |-> call.held, idx |-> g.idx,
                    block |-> g.block]
  /\ UNCHANGED <<input, pat, world, env>>

\* pattern->setBlock(variables, funcs, blockSource, pos)
HandSetBlock ==
  /\ pat.status = "compiled"
  /\ \E x \in XValues, u \in 0..(RandSteps - 1), pos \in DOMAIN world,
        res \in BOOLEAN :
       LET ext == [res |-> res, beAfter |-> FALSE, nbtOk |-> FALSE,
                   loaded |-> FALSE, stale |-> FALSE]
           o == List_setBlock(world, pat, x, u, pos, ext)
       IN  /\ world' = o.world
           /\ pat' = o.pat
           /\ call' = [op |-> "setBlock", held |-> call.held, idx |-> o.idx,
                       pos |-> pos, res |-> res, ret |-> o.ret]
  /\ UNCHANGED <<input, env>>

HandNext == HandConstruct \/ ChangeHand \/ HandGetBlock \/ HandSetBlock

SpecHand == HandInit /\ [][HandNext]_vars

(***************************************************************************)
(* SpecTerms: the two constructors on lists of up to MaxTerms well-formed  *)
(* terms joined by commas.                                                 *)
(***************************************************************************)
\* terms of the form [weight%]entry; some hold a comma inside a quoted
\* formula, a {..} tag or a [..] block-state suffix
TermSamples ==
  { <<"s">>,
    <<"5", "%", "s">>,
    <<"'", "x", "'", "%", "s">>,
    <<"s", ":", "5">>,
    <<"'", "x", ",", "x", "'">>,
    <<"r", "t", "'", "x", ",", "x", "'">>,
    <<"{", "s", ",", "s", "}">>,
    <<"s", "[", "s", ",", "s", "]">>,
    <<"r", "t", "5", ":", "5">>,
    <<"r", "t", "'", "x", "'", ":", "5">>,
    <<"{", "s", "}", ":", "5">> }

RECURSIVE Join(_)
\* the terms joined by commas
Join(ts) ==
  IF Len(ts) = 1 THEN ts[1] ELSE ts[1] \o <<",">> \o Join(Tail(ts))

TermLists == UNION {[1..n -> TermSamples] : n \in 1..MaxTerms}

TermInit ==
  /\ input \in {Join(ts) : ts \in TermLists}
  /\ pat = NoPattern
  /\ world = NoWorld
  /\ env = NoEnv
  /\ call = NoCall

SpecTerms == TermInit /\ [][CompNext]_vars

(***************************************************************************)
(* Claims about the weighted selector (SpecSelect).                        *)
(***************************************************************************)
RECURSIVE CumClamped(_, _, _)
\* w_1 + ... + w_i with w_k = max(0, v_k), v_k the weight of entry k at x
CumClamped(ps, x, i) ==
  IF i = 0 THEN 0
  ELSE CumClamped(ps, x, i - 1)
         + (IF getPercents(ps[i], x).v < 0 THEN 0 ELSE getPercents(ps[i], x).v)

\* the list with every weight that is negative at x replaced by the constant 0
ZeroedNegatives(ps, x) ==
  [i \in 1..Len(ps) |->
     IF getPercents(ps[i], x).v < 0 THEN [NewPercents EXCEPT !.value = 0] ELSE ps[i]]

SelN == Len(pat.percents)

SelTotal == CumClamped(pat.percents, call.x, SelN)

\* cumulative sum i is >= r = u * T
SelHit(i) == CumClamped(pat.percents, call.x, i) * RandSteps >= call.u * SelTotal

SelCase == call.op = "getRawBlock" /\ ~call.thrown /\ SelN >= 1 /\ SelTotal >= 1

\* C1: with clamped weights w_i = max(0, v_i) and total T >= 1e-32, the entry
\* returned is the least i < n whose cumulative sum is >= r = u * T, and the
\* last entry when there is none; a negative weight selects as weight 0 does.
C1_WeightedSelection ==
  SelCase =>
    /\ IF \E i \in 1..(SelN - 1) : SelHit(i)
         THEN /\ call.idx \in 1..(SelN - 1)
              /\ SelHit(call.idx)
              /\ \A j \in 1..(call.idx - 1) : ~SelHit(j)
         ELSE call.idx = SelN
    /\ call.idx = getRawBlock(ZeroedNegatives(pat.percents, call.x), call.x, call.u).idx

C1_Witness ==
  /\ SelCase
  /\ SelN = 3
  /\ call.idx = 2
  /\ getPercents(pat.percents[1], call.x).v < 0
  /\ call.u > 0

\* C3: when the clamped weights sum to at least the threshold, a draw returns
\* an entry of the list, never "no selection", and the last entry when the
\* draw exceeds every cumulative sum of the first n-1 entries.
C3_Remainder ==
  SelCase =>
    /\ call.idx \in 1..SelN
    /\ (\A j \in 1..(SelN - 1) : ~SelHit(j)) => call.idx = SelN

C3_Witness ==
  /\ SelCase
  /\ SelN >= 2
  /\ \A j \in 1..(SelN - 1) : ~SelHit(j)
  /\ call.idx = SelN
  /\ CumClamped(pat.percents, call.x, SelN - 1) >= 1

(***************************************************************************)
(* Claims about the constructors (SpecCompile).                            *)
(***************************************************************************)
\* the input ends in ':' and a run of digits
C4HasData ==
  \E k \in 1..(Len(input) - 1) :
     input[k] = ":" /\ \A j \in (k + 1)..Len(input) : isdigit(input[j])

C4Colon ==
  CHOOSE k \in 1..(Len(input) - 1) :
     input[k] = ":" /\ \A j \in (k + 1)..Len(input) : isdigit(input[j])

C4Ident == IF C4HasData THEN SubSeq(input, 1, C4Colon - 1) ELSE input

C4Data == IF C4HasData THEN LeadDigits(SubSeq(input, C4Colon + 1, Len(input)), 0) ELSE 0

C4Bare ==
  IF Len(C4Ident) > Len(Prefix) /\ SubSeq(C4Ident, 1, Len(Prefix)) = Prefix
    THEN SubSeq(C4Ident, Len(Prefix) + 1, Len(C4Ident)) ELSE C4Ident

C4Name == Prefix \o C4Bare

\* the input is one identifier, with or without a constant data suffix,
\* given to the BlockListPattern constructor
C4Case ==
  /\ pat.cls = "BlockListPattern"
  /\ pat.status # "none"
  /\ C4Bare # <<>>
  /\ isalpha(C4Bare[1])
  /\ \A k \in 1..Len(C4Bare) : C4Bare[k] \in Letters \cup Digits \cup {"_"}
  /\ ~(Len(C4Bare) >= 3 /\ C4Bare[1] = "r" /\ C4Bare[2] = "t" /\ isdigit(C4Bare[3]))

\* the entry is the only one, constant, always selected and resolves to b
C4ResolvesTo(b) ==
  /\ pat.status = "compiled"
  /\ Len(pat.rawBlocks) = 1
  /\ pat.rawBlocks[1].constBlock
  /\ \A x \in XValues :
       /\ \A u \in 0..(RandSteps - 1) : getRawBlock(pat.percents, x, u).idx = 1
       /\ List_getBlock(pat.rawBlocks[1], x).block = b

C5_MalformedBrace ==
  (/\ pat.status # "none"
   /\ \E k \in 1..Len(input) : input[k] = "{"
   /\ \A k \in 1..Len(input) : input[k] \notin {"}", "'"})
    => pat.status # "compiled"

\* C6 (as claimed): a string that opens a quoted formula ('... or rt'...) and
\* never closes it does not compile.
C6_MalformedQuote ==
  (/\ pat.status # "none"
   /\ \/ (Len(input) >= 1 /\ input[1] = "'"
          /\ \A k \in 2..Len(input) : input[k] # "'")
      \/ (Len(input) >= 3 /\ SubSeq(input, 1, 3) = <<"r", "t", "'">>
          /\ \A k \in 4..Len(input) : input[k] # "'"))
    => pat.status # "compiled"

(***************************************************************************)
(* Claims about setBlock (SpecApply).                                      *)
(***************************************************************************)
\* the clamped weights of the pattern sum to less than the threshold at the
\* context of the last call
ZeroTotal == CumClamped(pat.percents, call.x, Len(pat.percents)) < 1

\* C2: when the clamped weights of all entries sum to less than 1e-32 in the
\* context of a setBlock call, the call returns false and writes nothing: no
\* block, no companion block, no block-entity data.
C2_ZeroWeight ==
  [][(call'.op = "setBlock" /\ ~call'.thrown
      /\ CumClamped(pat.percents, call'.x, Len(pat.percents)) < 1)
       => (call'.ret = FALSE /\ call'.writes = {} /\ world' = world)]_vars

C2_Witness ==
  /\ call.op = "setBlock"
  /\ ~call.thrown
  /\ Len(pat.percents) = 2
  /\ ~pat.percents[1].isNum
  /\ ZeroTotal
  /\ call.ret = FALSE
  /\ \E p \in DOMAIN world : world[p].block # Air

\* C10 (as claimed): setBlock of a weighted-list pattern returns true exactly
\* when the placement reported success, whatever happens to the block-entity
\* data.
C10_ReturnValue ==
  (call.op = "setBlock" /\ ~call.thrown) =>
    (call.ret <=> (call.idx # 0 /\ call.res))

(***************************************************************************)
(* Claims about clipboard patterns (SpecClip).                             *)
(***************************************************************************)
\* a setBlock call on a clipboard pattern compiled against a region from a
\* string with no digit and no '-'
C7Case ==
  /\ call.op = "setBlock"
  /\ pat.clipboard
  /\ ~env.region.none
  /\ \A k \in 1..Len(input) : ~isdigit(input[k]) /\ input[k] # "-"

\* c is the block coordinate of the centre of the real box [lo, hi + 1]
IsCentre(c, lo, hi) == 2 * c <= lo + hi + 1 /\ lo + hi + 1 < 2 * c + 2

C8_ClearedClipboard ==
  (call.op = "setBlock" /\ pat.clipboard /\ ~call.used) =>
    (call.ret = FALSE /\ call.writes = {})

(***************************************************************************)
(* Claims about "#hand" (SpecHand).                                        *)
(***************************************************************************)
\* the block of a hand: air when the player is not found or holds no block
HeldBlock(h) == IF h.found /\ h.hasBlock THEN h.block ELSE Air

\* C9: a pattern compiled from "#hand" has one entry holding the block that
\* was in the player's hand when the constructor ran (air when the player
\* was not found or held no block), and every later getBlock / setBlock
\* gives that block whatever the player holds afterwards.
C9_HandSnapshot ==
  pat.status = "compiled" =>
    /\ Len(pat.rawBlocks) = 1
    /\ pat.type = "HAND"
    /\ call.op = "getBlock" => (call.idx = 1 /\ call.block = HeldBlock(call.held))
    /\ call.op = "setBlock" =>
         /\ call.idx = 1
         /\ call.res => world[call.pos].block = HeldBlock(call.held)

C9_Witness ==
  /\ call.op = "getBlock"
  /\ call.held.found
  /\ call.held.hasBlock
  /\ env.hand.found
  /\ env.hand.hasBlock
  /\ env.hand.block # call.held.block
  /\ call.block = call.held.block

(***************************************************************************)
(* Claims about getBlock (SpecApply).                                      *)
(***************************************************************************)
\* C11 (as claimed): getBlock in a context where the clamped weights sum to
\* less than the threshold returns no block, raises no error and never goes
\* through a missing entry.
C11_EmptyResolve ==
  (call.op = "getBlock" /\ ~call.thrown /\ ZeroTotal) =>
    (call.block = NullBlock /\ ~call.nullDeref /\ ~call.crashed)

\* C12 (as claimed): no getBlock or setBlock call changes an entry of the
\* compiled pattern: the strategy tag, the data value, the formula strings
\* and the weights stay what the constructor produced.
C12_NoMutation ==
  [][(call'.op \in {"getBlock", "setBlock"})
       => (pat'.rawBlocks = pat.rawBlocks /\ pat'.percents = pat.percents)]_vars

\* the pattern is one unweighted entry that starts with a plain quoted
\* formula / with an rt'..' formula
C16Plain ==
  /\ Len(input) >= 3
  /\ input[1] = "'"
  /\ \A k \in 1..Len(input) : input[k] \notin {"%", ","}

C16Runtime ==
  /\ Len(input) >= 5
  /\ SubSeq(input, 1, 3) = <<"r", "t", "'">>
  /\ \A k \in 1..Len(input) : input[k] \notin {"%", ","}

\* C16 (as claimed): an entry compiled from 'f' resolves to the block whose
\* numeric id is round(f), with its data resolved separately, and an entry
\* compiled from rt'f' to the palette block at index round(f).
C16_FormulaVsRuntime ==
  (call.op = "getBlock" /\ ~call.thrown /\ call.idx = 1) =>
    LET rb == pat.rawBlocks[1]
        id == Round(Eval(rb.blockIdfunc, call.x))
    IN  /\ C16Plain => call.block = BlockCreate(getBlockName(id), ResolveData(rb, call.x))
        /\ C16Runtime => call.block = PaletteBlock(id)

(***************************************************************************)
(* Claims about weights and terms (SpecCompile).                           *)
(***************************************************************************)
\* the number of commas of the input
Commas == Cardinality({k \in 1..Len(input) : input[k] = ","})

\* the input is a list of identifiers made of letters, separated by single
\* commas, with no weight anywhere
C13Case ==
  /\ pat.status # "none"
  /\ input # <<>>
  /\ \A k \in 1..Len(input) : input[k] \in Letters \cup {","}
  /\ input[1] # ","
  /\ input[Len(input)] # ","
  /\ \A k \in 1..(Len(input) - 1) : ~(input[k] = "," /\ input[k + 1] = ",")

\* C13: a pattern string in which no term carries a weight compiles to
\* entries that all have the same positive constant weight; a uniform draw
\* u selects entry i exactly for (i-1)/k < u <= i/k (entry 1 also for
\* u = 0), an equal share each, and every entry is selected by some draw.
C13_EqualWeights ==
  C13Case =>
    LET k == Commas + 1
    IN  /\ pat.status = "compiled"
        /\ Len(pat.percents) = k
        /\ \A i \in 1..k :
             /\ pat.percents[i].isNum
             /\ pat.percents[i].value > 0
             /\ pat.percents[i].value = pat.percents[1].value
        /\ \A x \in XValues, u \in 0..(RandSteps - 1), i \in 1..k :
             (getRawBlock(pat.percents, x, u).idx = i)
               <=> /\ (i = 1 \/ (i - 1) * RandSteps < u * k)
                   /\ (i = k \/ u * k <= i * RandSteps)
        /\ k <= RandSteps =>
             \A i \in 1..k : \E u \in 0..(RandSteps - 1) :
                getRawBlock(pat.percents, 0, u).idx = i

C13_Witness ==
  /\ C13Case
  /\ Commas = 2
  /\ Len(pat.percents) = 3
  /\ getRawBlock(pat.percents, 0, RandSteps - 1).idx = 3
  /\ getRawBlock(pat.percents, 0, 0).idx = 1

(***************************************************************************)
(* Claims about terms (SpecTerms).                                         *)
(***************************************************************************)
\* what a term compiles to when it is the whole pattern string
OneTerm(t) == CompileList(pat.cls, t, NUL, env.hasBE)

\* C14 (as claimed): k well-formed terms joined by commas compile to
\* exactly k entries, entry j being what term j compiles to; a comma inside
\* a quoted formula, a {..} tag or a [..] suffix starts no new term.
C14_TermCount ==
  pat.status # "none" =>
    \A ts \in TermLists :
       Join(ts) = input =>
         /\ pat.status = "compiled"
         /\ Len(pat.rawBlocks) = Len(ts)
         /\ Len(pat.percents) = Len(ts)
         /\ \A j \in 1..Len(ts) :
              /\ pat.rawBlocks[j] = OneTerm(ts[j]).rawBlocks[1]
              /\ pat.percents[j] = OneTerm(ts[j]).percents[1]

(***************************************************************************)
(* Claims about weight recognition (SpecCompile).                          *)
(***************************************************************************)
\* the input holds one '%'
C15OnePercent == Cardinality({k \in 1..Len(input) : input[k] = "%"}) = 1

\* the input starts with n digits and a '%'
C15HeadNum(n) ==
  /\ n \in 1..(Len(input) - 1)
  /\ \A k \in 1..n : isdigit(input[k])
  /\ input[n + 1] = "%"

\* the input starts with a quoted formula that closes at q, and a '%'
C15HeadQuote(q) ==
  /\ q \in 2..(Len(input) - 1)
  /\ input[1] = "'"
  /\ input[q] = "'"
  /\ \A k \in 2..(q - 1) : input[k] # "'"
  /\ input[q + 1] = "%"

\* the input starts with an identifier of n letters and a '%'
C15HeadIdent(n) ==
  /\ n \in 1..(Len(input) - 1)
  /\ \A k \in 1..n : input[k] \in Letters
  /\ input[n + 1] = "%"

\* the weight of the first entry is explicit: a numeric token
C15NumWeight ==
  \A n \in 1..Len(input) :
     C15HeadNum(n) =>
       /\ pat.percents[1].isNum
       /\ pat.percents[1].value = 10 * LeadDigits(input, 0)

\* the weight of the first entry is explicit: a quoted formula
C15QuoteWeight ==
  \A q \in 1..Len(input) :
     C15HeadQuote(q) =>
       /\ ~pat.percents[1].isNum
       /\ pat.percents[1].function = SubSeq(input, 2, q - 1)

\* C15 (as claimed): the first term has an explicit weight exactly when a
\* '%' stands right after a numeric token or a quoted formula at its start:
\* the number gives a constant weight, the quoted text a formula weight, and
\* an identifier followed by '%' is not taken as a weight.
C15_WeightRecognition ==
  (pat.status = "compiled" /\ C15OnePercent) =>
    /\ C15NumWeight
    /\ C15QuoteWeight
    /\ \A n \in 1..Len(input) : C15HeadIdent(n) => pat.percents[1] = NewPercents

(***************************************************************************)
(* Claims about block-entity data (SpecApply).                             *)
(***************************************************************************)
\* the block the entry selected by the last setBlock call resolved to
ResolvedBlock ==
  IF pat.cls = "BlockListPattern"
    THEN List_getBlock(pat.rawBlocks[call.idx], call.x).block
    ELSE Block_getBlock(pat.rawBlocks[call.idx], call.x).block

\* C17: a setBlock call writes block-entity data or creates a block entity
\* only if the selected entry carries a non-empty payload and the block
\* resolved for the position supports block-entity data.
C17_EntityOnlyWhen ==
  (call.op = "setBlock" /\ "blockEntity" \in call.writes) =>
    /\ call.idx # 0
    /\ pat.rawBlocks[call.idx].blockEntity # <<>>
    /\ hasBlockEntity(ResolvedBlock)

C17_Witness ==
  /\ call.op = "setBlock"
  /\ "blockEntity" \in call.writes
  /\ pat.cls = "BlockListPattern"
  /\ ~call.res
  /\ \E p \in DOMAIN world : world[p].be.present /\ world[p].be.nbt # <<>>

(***************************************************************************)
(* Claims about a clipboard pattern compiled without content (SpecClip).   *)
(***************************************************************************)
\* the clipboard has been unused since the start, so also when the pattern
\* was compiled: it is unused now and was never erased
NeverUsed == ~env.clip.used /\ env.clip.alive

\* C18: a "#clipboard" pattern compiled while the player's clipboard is
\* unused places nothing and returns false from every setBlock call.
C18_UnusedClipboard ==
  [][(call'.op = "setBlock" /\ Find(input, sClipboard) /\ NeverUsed)
       => (call'.ret = FALSE /\ call'.writes = {} /\ world' = world)]_vars

C18_Witness ==
  /\ call.op = "setBlock"
  /\ Find(input, sClipboard)
  /\ NeverUsed
  /\ ~pat.clipboard
  /\ call.res
  /\ call.ret = FALSE

(***************************************************************************)
(* Claims about evaluator failures (SpecApply).                            *)
(***************************************************************************)
\* C19 (as claimed): a setBlock call in which the evaluator fails on a
\* weight, a block-id formula or a data formula places no block and leaves
\* the compiled pattern as it was.
C19_EvalFailure ==
  [][(call'.op = "setBlock" /\ call'.thrown)
       => (world' = world /\ pat' = pat)]_vars

(***************************************************************************)
(* Claims about the block-entity step (SpecApply).                         *)
(***************************************************************************)
\* the last setBlock call selected an entry with a block-entity payload and
\* resolved it to a block that supports block-entity data; the entry's
\* hasBE flag is set, and the server lets both setNbt and the loader succeed
C20Case ==
  /\ call.op = "setBlock"
  /\ ~call.thrown
  /\ call.idx # 0
  /\ pat.rawBlocks[call.idx].blockEntity # <<>>
  /\ pat.rawBlocks[call.idx].hasBE
  /\ hasBlockEntity(ResolvedBlock)
  /\ call.nbtOk
  /\ call.loaded

\* C20 (as claimed): in that case the position has a block entity with the
\* payload after the call: the data of the one that was there is replaced,
\* or a new one is loaded from the payload and placed.
C20_ReplaceOrCreate ==
  C20Case =>
    /\ world[call.pos].be.present
    /\ world[call.pos].be.nbt = pat.rawBlocks[call.idx].blockEntity

(***************************************************************************)
(* SpecBrace: patterns made of one entry of one, two or three brace        *)
(* groups, written back to back, back to back inside an outer pair of      *)
(* braces, and inside an outer pair with one separating character.         *)
(***************************************************************************)
BraceGroups ==
  { <<"{", "c", "}">>, <<"{", "s", "}">>, <<"{", "s", "{", "n", "}", "}">> }

GroupLists == UNION {[1..n -> BraceGroups] : n \in 1..3}

RECURSIVE JoinWith(_, _)
\* the groups written one after another with sep between them
JoinWith(gs, sep) ==
  IF Len(gs) = 1 THEN gs[1] ELSE gs[1] \o sep \o JoinWith(Tail(gs), sep)

BackToBack(gs) == JoinWith(gs, <<>>)

Wrapped(gs) == <<"{">> \o JoinWith(gs, <<>>) \o <<"}">>

Separated(gs) == <<"{">> \o JoinWith(gs, <<",">>) \o <<"}">>

BraceInit ==
  /\ input \in {BackToBack(gs) : gs \in GroupLists}
                 \cup {Wrapped(gs) : gs \in {g \in GroupLists : Len(g) > 1}}
                 \cup {Separated(gs) : gs \in {g \in GroupLists : Len(g) > 1}}
  /\ pat = NoPattern
  /\ world = NoWorld
  /\ env = NoEnv
  /\ call = NoCall

SpecBrace == BraceInit /\ [][CompNext]_vars

(***************************************************************************)
(* Claims about brace groups (SpecBrace).                                  *)
(***************************************************************************)
\* the single entry of the compiled pattern has these three parts
C21Entry(block, exBlock, blockEntity) ==
  /\ pat.status = "compiled"
  /\ Len(pat.rawBlocks) = 1
  /\ pat.rawBlocks[1].block = block
  /\ pat.rawBlocks[1].exBlock = exBlock
  /\ pat.rawBlocks[1].blockEntity = blockEntity

\* the entry the groups gs stand for: block, companion, payload
C21Meant(gs) ==
  C21Entry(TagBlock(gs[1]),
           IF Len(gs) > 1 THEN TagBlock(gs[2]) ELSE Air,
           IF Len(gs) > 2 THEN gs[3] ELSE <<>>)

\* C21 (as claimed): an entry written as the back-to-back groups {A}{B}{C},
\* alone or inside an outer pair of braces, compiles to one entry whose
\* block is A, whose companion is B and whose payload is C; with two groups
\* the payload is empty, with one group the companion is air as well.
C21_BraceGroups ==
  pat.status # "none" =>
    \A gs \in GroupLists :
       (input = BackToBack(gs) \/ (Len(gs) > 1 /\ input = Wrapped(gs)))
         => C21Meant(gs)

(***************************************************************************)
(* Claims about quote scanning (SpecCompile).                              *)
(***************************************************************************)
\* the quote character at index q of the input is escaped
C22Escaped(q) == q > 1 /\ input[q - 1] = "\\"

\* the input is one quoted formula: n characters of prefix, an opening quote,
\* and its first unescaped quote is its last character
C22Quoted(n) ==
  /\ Len(input) >= n + 2
  /\ input[n + 1] = "'"
  /\ input[Len(input)] = "'" /\ ~C22Escaped(Len(input))
  /\ \A q \in (n + 2)..(Len(input) - 1) : input[q] = "'" => C22Escaped(q)

\* C22 (as claimed): the text of a quoted formula token ('..' or rt'..')
\* runs from the opening quote to the first quote that is not escaped, so
\* the formula of the entry is the whole text between them, escaped quotes
\* included.
C22_QuoteEscapes ==
  pat.status # "none" =>
    /\ C22Quoted(0) =>
         /\ pat.status = "compiled"
         /\ Len(pat.rawBlocks) = 1
         /\ pat.rawBlocks[1].blockIdfunc = SubSeq(input, 2, Len(input) - 1)
    /\ (C22Quoted(2) /\ input[1] = "r" /\ input[2] = "t") =>
         /\ pat.status = "compiled"
         /\ Len(pat.rawBlocks) = 1
         /\ pat.rawBlocks[1].blockIdfunc = SubSeq(input, 4, Len(input) - 1)

(***************************************************************************)
(* Claims about zero-weight entries (SpecSelect).                          *)
(***************************************************************************)
\* the clamped weight of entry i at the position of the call
C23Weight(i) == Weights(pat.percents, call.x)[i]

\* C23 (as claimed): when the total clamped weight is positive, the entry
\* selected never has clamped weight 0, for every draw in [0,1), the draw 0
\* included, and wherever the zero-weight entry stands in the list.
C23_ZeroWeightNeverSelected ==
  SelCase => (call.idx \in 1..SelN /\ C23Weight(call.idx) > 0)

(***************************************************************************)
(* Claims about the reads of the tokenizer (SpecCompile).                  *)
(***************************************************************************)
\* C24 (as claimed): for every input string the tokenizer loop of the
\* constructor terminates, and the largest character index it reads is at
\* most the length of the string (the terminating NUL).
C24_ScannerBounds ==
  pat.status # "none" =>
    (pat.status # "hang" /\ pat.maxRead <= Len(input))

(***************************************************************************)
(* Claims about the raw-token cursor (SpecTerms).                          *)
(***************************************************************************)
RECURSIVE C30Tokens(_, _)
\* the number of tokens the tokenizer emits for the terms ts[1..k]
C30Tokens(ts, k) ==
  IF k = 0 THEN 0 ELSE C30Tokens(ts, k - 1) + OneTerm(ts[k]).nRaw

\* C30 (as claimed): after the compile loop has processed term k, the
\* raw-token cursor equals the number of tokens emitted for terms 1..k, also
\* when a term carries a ':data' suffix after an rt<digits> name, an rt'..'
\* formula or a {..} tag.
C30_CursorAlignment ==
  pat.status = "compiled" =>
    \A ts \in TermLists :
       (/\ Join(ts) = input
        /\ Len(pat.cursors) = Len(ts)
        /\ \A j \in 1..Len(ts) : Len(OneTerm(ts[j]).cursors) = 1) =>
         \A k \in 1..Len(ts) : pat.cursors[k] = C30Tokens(ts, k)

(***************************************************************************)
(* CuboidRegion: the two corners mainPos and vicePos and the bounding box  *)
(* computed from them.  A position is <<x, y, z>>.  The geometry handle    *)
(* (box) that updateBoundingBox also refreshes is a display object and is  *)
(* left out.                                                               *)
(***************************************************************************)
\* CuboidRegion::updateBoundingBox
updateBoundingBox(r) ==
  [r EXCEPT !.boundingBox =
     [min |-> [a \in 1..3 |-> Min(r.mainPos[a], r.vicePos[a])],
      max |-> [a \in 1..3 |-> Max(r.mainPos[a], r.vicePos[a])]]]

\* CuboidRegion::contract with the sign test of expand (change > 0)
contract_AsExpand(r, change) ==
  LET lead(a) == IF change[a] > 0 THEN Max(r.mainPos[a], r.vicePos[a])
                 ELSE Min(r.mainPos[a], r.vicePos[a])
      onMain(a) == lead(a) = r.mainPos[a]
  IN  updateBoundingBox(
        [r EXCEPT
           !.mainPos = [a \in 1..3 |-> IF onMain(a) THEN @[a] + change[a] ELSE @[a]],
           !.vicePos = [a \in 1..3 |-> IF onMain(a) THEN @[a] ELSE @[a] + change[a]]])

\* CuboidRegion::expand for one change vector: on each axis a positive
\* change moves the corner that holds the maximum, any other change the
\* corner that holds the minimum; mainPos is tested first
expand(r, change) ==
  LET lead(a) == IF change[a] > 0 THEN Max(r.mainPos[a], r.vicePos[a])
                 ELSE Min(r.mainPos[a], r.vicePos[a])
      onMain(a) == lead(a) = r.mainPos[a]
  IN  updateBoundingBox(
        [r EXCEPT
           !.mainPos = [a \in 1..3 |-> IF onMain(a) THEN @[a] + change[a] ELSE @[a]],
           !.vicePos = [a \in 1..3 |-> IF onMain(a) THEN @[a] ELSE @[a] + change[a]]])

\* CuboidRegion::contract for one change vector: on each axis a negative
\* change moves the corner that holds the maximum, any other change the
\* corner that holds the minimum
contract(r, change) ==
  LET lead(a) == IF change[a] < 0 THEN Max(r.mainPos[a], r.vicePos[a])
                 ELSE Min(r.mainPos[a], r.vicePos[a])
      onMain(a) == lead(a) = r.mainPos[a]
  IN  updateBoundingBox(
        [r EXCEPT
           !.mainPos = [a \in 1..3 |-> IF onMain(a) THEN @[a] + change[a] ELSE @[a]],
           !.vicePos = [a \in 1..3 |-> IF onMain(a) THEN @[a] ELSE @[a] + change[a]]])

(***************************************************************************)
(* SpecCuboid: a cuboid region, one expand call and one contract call      *)
(* after it, each with one change vector.                                  *)
(***************************************************************************)
CornerCoords == {0, 1}

ChangeCoords == {-1, 0, 1}

Vectors(S) == {<<x, y, z>> : x \in S, y \in S, z \in S}

CuboidInit ==
  /\ input = <<>>
  /\ pat = NoPattern
  /\ \E m \in Vectors(CornerCoords), v \in Vectors(CornerCoords) :
       world = updateBoundingBox(
                 [mainPos |-> m, vicePos |-> v,
                  boundingBox |-> [min |-> m, max |-> m]])
  /\ env = NoEnv
  /\ call = NoCall

\* region.expand({change})
Expand ==
  /\ call.op = "none"
  /\ \E change \in Vectors(ChangeCoords) :
       /\ world' = expand(world, change)
       /\ call' = [op |-> "expand", change |-> change, before |-> world]
  /\ UNCHANGED <<input, pat, env>>

\* region.contract({change}) after an expand
Contract ==
  /\ call.op = "expand"
  /\ \E change \in Vectors(ChangeCoords) :
       /\ world' = contract(world, change)
       /\ call' = [op |-> "contract", change |-> change, before |-> world,
                   first |-> call]
  /\ UNCHANGED <<input, pat, env>>

CuboidNext == Expand \/ Contract

SpecCuboid == CuboidInit /\ [][CuboidNext]_vars

(***************************************************************************)
(* Claims about the cuboid region (SpecCuboid).                            *)
(***************************************************************************)
\* the last two calls were expand(c) and contract(-c)
C29Case ==
  /\ call.op = "contract"
  /\ \A a \in 1..3 : call.change[a] = -call.first.change[a]

\* C29: expand(c) followed by contract(-c) leaves mainPos, vicePos and the
\* bounding box as they were before the two calls, for every pair of corners
\* (corners that coincide on an axis included) and every change vector c.
C29_RoundTrip ==
  C29Case =>
    /\ world.mainPos = call.first.before.mainPos
    /\ world.vicePos = call.first.before.vicePos
    /\ world.boundingBox = call.first.before.boundingBox

\* C29 witness: a round trip on a region whose corners coincide on the x
\* axis and differ on the y axis, with a change on every axis
C29_Witness ==
  /\ C29Case
  /\ call.first.before.mainPos[1] = call.first.before.vicePos[1]
  /\ call.first.before.mainPos[2] > call.first.before.vicePos[2]
  /\ \A a \in 1..3 : call.change[a] # 0
  /\ call.first.change[1] > 0 /\ call.first.change[2] < 0

(***************************************************************************)
(* PlayerState and PlayerStateManager for one player.  world is the entry  *)
(* of playerStates for the player's uuid (NoState when there is none), env *)
(* the rest of the server:                                                 *)
(*   tick       the level's current tick                                   *)
(*   simulated  player.isSimulated()                                       *)
(*   connected  the player is in the game                                  *)
(*   tasks      the tasks queued in the thread pool and not yet run        *)
(*   storage    the entry of storagedState for the uuid                    *)
(*   prevLeft, prevRight  history: the tick of the player's previous       *)
(*              non-long wand left / right click, -1 when there is none    *)
(* A position with its dimension is [set, pos, dim]; the region of a state *)
(* is a cuboid [set, dim, mainPos, vicePos, boundingBox].                  *)
(***************************************************************************)
MinimumResponseTick == 3

NoPos == [set |-> FALSE, pos |-> Origin, dim |-> 0]

NoSel ==
  [set |-> FALSE, dim |-> 0, mainPos |-> Origin, vicePos |-> Origin,
   boundingBox |-> [min |-> Origin, max |-> Origin]]

NoState == [exists |-> FALSE]

NoStored == [exists |-> FALSE]

\* PlayerState::PlayerState(uuid, temp)
NewPlayerState(temp) ==
  [exists |-> TRUE, temp |-> temp, mDirty |-> FALSE, mainPos |-> NoPos,
   vicePos |-> NoPos, region |-> NoSel, lastLeftClick |-> 0,
   lastRightClick |-> 0]

\* PlayerState::serialize: the positions and the region, not the temp flag,
\* the dirty flag or the click ticks
serialize(st) ==
  [exists |-> TRUE, mainPos |-> st.mainPos, vicePos |-> st.vicePos,
   region |-> st.region]

\* PlayerState::deserialize
deserialize(st, nbt) ==
  [st EXCEPT !.mainPos = nbt.mainPos, !.vicePos = nbt.vicePos,
             !.region = nbt.region]

\* PlayerStateManager::getOrCreate(uuid, temp): the state of the uuid
getOrCreate(st, storage, temp) ==
  IF st.exists THEN st
  ELSE IF ~temp /\ storage.exists
    THEN deserialize(NewPlayerState(temp), storage)
    ELSE NewPlayerState(temp)

\* CuboidRegion::needResetVice
needResetVice == FALSE

\* PlayerState::getOrCreateRegion
getOrCreateRegion(st, v) ==
  IF ~st.region.set \/ st.region.dim # v.dim
    THEN [st EXCEPT !.region =
                      [set |-> TRUE, dim |-> v.dim, mainPos |-> v.pos,
                       vicePos |-> v.pos,
                       boundingBox |-> [min |-> v.pos, max |-> v.pos]],
                    !.mDirty = TRUE]
    ELSE st

\* PlayerState::setMainPos; CuboidRegion::setMainPos returns true
setMainPos(st, v) ==
  LET s1 == getOrCreateRegion(st, v)
  IN  [s1 EXCEPT !.region = updateBoundingBox([@ EXCEPT !.mainPos = v.pos]),
                 !.mainPos = [set |-> TRUE, pos |-> v.pos, dim |-> v.dim],
                 !.vicePos = IF needResetVice THEN NoPos ELSE @,
                 !.mDirty = TRUE]

\* PlayerState::setVicePos; CuboidRegion::setVicePos returns true
setVicePos(st, v) ==
  LET s1 == getOrCreateRegion(st, v)
  IN  [s1 EXCEPT !.region = updateBoundingBox([@ EXCEPT !.vicePos = v.pos]),
                 !.vicePos = [set |-> TRUE, pos |-> v.pos, dim |-> v.dim],
                 !.mDirty = TRUE]

\* playerLeftClick that restarts the interval only when the click is accepted
playerLeftClick_NoRestart(st, e, isLong, wand, dst) ==
  LET data == getOrCreate(st, e.storage, e.simulated)
      needDiscard == e.tick - data.lastLeftClick < MinimumResponseTick
  IN  IF wand
        THEN IF isLong THEN [st |-> data, ret |-> "Pass"]
             ELSE [st |-> IF needDiscard THEN data
                          ELSE setMainPos([data EXCEPT !.lastLeftClick = e.tick], dst),
                   ret |-> "Hold"]
        ELSE [st |-> data, ret |-> "Pass"]

\* PlayerStateManager::playerLeftClick
playerLeftClick(st, e, isLong, wand, dst) ==
  LET data == getOrCreate(st, e.storage, e.simulated)
      needDiscard == e.tick - data.lastLeftClick < MinimumResponseTick
      clicked == [data EXCEPT !.lastLeftClick = e.tick]
  IN  IF wand
        THEN IF isLong THEN [st |-> data, ret |-> "Pass"]
             ELSE [st |-> IF needDiscard THEN clicked ELSE setMainPos(clicked, dst),
                   ret |-> "Hold"]
        ELSE [st |-> data, ret |-> "Pass"]

\* PlayerStateManager::playerRightClick
playerRightClick(st, e, isLong, wand, dst) ==
  LET data == getOrCreate(st, e.storage, e.simulated)
      needDiscard == e.tick - data.lastRightClick < MinimumResponseTick
      clicked == [data EXCEPT !.lastRightClick = e.tick]
  IN  IF wand
        THEN IF isLong THEN [st |-> data, ret |-> "Pass"]
             ELSE [st |-> IF needDiscard THEN clicked ELSE setVicePos(clicked, dst),
                   ret |-> "Hold"]
        ELSE [st |-> data, ret |-> "Pass"]

\* PlayerStateManager::release that erases the state whatever set returns
release_IgnoreStore(st, storage, ok) ==
  IF ~st.exists THEN [st |-> st, storage |-> storage, ret |-> FALSE]
  ELSE IF st.temp \/ ~st.mDirty
    THEN [st |-> NoState, storage |-> storage, ret |-> TRUE]
  ELSE [st |-> NoState, storage |-> IF ok THEN serialize(st) ELSE storage,
        ret |-> TRUE]

\* PlayerStateManager::release; ok is what storagedState.set returns
release(st, storage, ok) ==
  IF ~st.exists THEN [st |-> st, storage |-> storage, ret |-> FALSE]
  ELSE IF st.temp \/ ~st.mDirty
    THEN [st |-> NoState, storage |-> storage, ret |-> TRUE]
  ELSE IF ok
    THEN [st |-> NoState, storage |-> serialize(st), ret |-> TRUE]
  ELSE [st |-> st, storage |-> storage, ret |-> FALSE]

(***************************************************************************)
(* The events and tasks of one player.                                     *)
(***************************************************************************)
ClickTargets ==
  { [pos |-> <<0, 0, 0>>, dim |-> 0], [pos |-> <<1, 0, 0>>, dim |-> 0],
    [pos |-> <<1, 0, 0>>, dim |-> 1] }

\* the level advances by one tick
Tick ==
  /\ env.tick < MaxTick
  /\ env' = [env EXCEPT !.tick = @ + 1]
  /\ call' = [op |-> "tick"]
  /\ UNCHANGED <<input, pat, world>>

\* PlayerDestroyBlockEvent (isLong false) and PlayerSwingEvent (isLong true)
LeftClick ==
  /\ env.connected
  /\ \E isLong \in BOOLEAN, wand \in BOOLEAN, dst \in ClickTargets :
       LET r == playerLeftClick(world, env, isLong, wand, dst)
       IN  /\ world' = r.st
           /\ env' = [env EXCEPT
                        !.prevLeft = IF wand /\ ~isLong THEN env.tick ELSE @]
           /\ call' = [op |-> "leftClick", isLong |-> isLong, wand |-> wand,
                       dst |-> dst, ret |-> r.ret]
  /\ UNCHANGED <<input, pat>>

\* PlayerInteractBlockEvent, PlayerPlacingBlockEvent, PlayerUseItemOnEvent
\* (isLong false) and PlayerUseItemEvent (isLong true)
RightClick ==
  /\ env.connected
  /\ \E isLong \in BOOLEAN, wand \in BOOLEAN, dst \in ClickTargets :
       LET r == playerRightClick(world, env, isLong, wand, dst)
       IN  /\ world' = r.st
           /\ env' = [env EXCEPT
                        !.prevRight = IF wand /\ ~isLong THEN env.tick ELSE @]
           /\ call' = [op |-> "rightClick", isLong |-> isLong, wand |-> wand,
                       dst |-> dst, ret |-> r.ret]
  /\ UNCHANGED <<input, pat>>

\* the task queued by the PlayerConnectEvent listener: getOrCreate(id),
\* whose temp argument is the default of the declaration (false)
ConnectTask ==
  /\ "connect" \in env.tasks
  /\ world' = getOrCreate(world, env.storage, FALSE)
  /\ env' = [env EXCEPT !.tasks = @ \ {"connect"}]
  /\ call' = [op |-> "connect"]
  /\ UNCHANGED <<input, pat>>

\* a command of the player: getOrCreate(CommandOrigin const&)
Command ==
  /\ env.connected
  /\ world' = getOrCreate(world, env.storage, ~env.simulated)
  /\ call' = [op |-> "command"]
  /\ UNCHANGED <<input, pat, env>>

\* PlayerLeaveEvent: the listener queues release(id)
PlayerLeave ==
  /\ env.connected
  /\ env' = [env EXCEPT !.connected = FALSE, !.tasks = @ \cup {"release"}]
  /\ call' = [op |-> "leave"]
  /\ UNCHANGED <<input, pat, world>>

\* the task queued by the PlayerLeaveEvent listener
ReleaseTask ==
  /\ "release" \in env.tasks
  /\ \E ok \in BOOLEAN :
       LET r == release(world, env.storage, ok)
       IN  /\ world' = r.st
           /\ env' = [env EXCEPT !.tasks = @ \ {"release"},
                                 !.storage = r.storage]
           /\ call' = [op |-> "release", ret |-> r.ret, ok |-> ok,
                       before |-> world]
  /\ UNCHANGED <<input, pat>>

(***************************************************************************)
(* SpecClick: the clicks of a connected player as the ticks go by.         *)
(***************************************************************************)
ClickInit ==
  /\ input = <<>>
  /\ pat = NoPattern
  /\ world = NoState
  /\ \E simulated \in BOOLEAN :
       env = [tick |-> 0, simulated |-> simulated, connected |-> TRUE,
              tasks |-> {}, storage |-> NoStored, prevLeft |-> -1,
              prevRight |-> -1]
  /\ call = NoCall

ClickNext == Tick \/ LeftClick \/ RightClick

SpecClick == ClickInit /\ [][ClickNext]_vars

(***************************************************************************)
(* SpecManager: a player who has just connected; the connect task, the     *)
(* player's clicks and commands, the leave event and the release task run  *)
(* in any order the thread pool allows.                                    *)
(***************************************************************************)
ManagerInit ==
  /\ input = <<>>
  /\ pat = NoPattern
  /\ world = NoState
  /\ \E simulated \in BOOLEAN,
        storage \in {NoStored,
                     serialize(setMainPos(NewPlayerState(FALSE),
                                          [pos |-> <<1, 0, 0>>, dim |-> 0]))} :
       env = [tick |-> MinimumResponseTick, simulated |-> simulated,
              connected |-> TRUE,
              tasks |-> IF simulated THEN {} ELSE {"connect"},
              storage |-> storage, prevLeft |-> -1, prevRight |-> -1]
  /\ call = NoCall

ManagerNext ==
  ConnectTask \/ LeftClick \/ RightClick \/ Command \/ PlayerLeave \/ ReleaseTask

SpecManager == ManagerInit /\ [][ManagerNext]_vars

(***************************************************************************)
(* Claims about the player state manager (SpecManager).                    *)
(***************************************************************************)
\* C25 (as claimed): whichever of the connect task, a click handler and a
\* command's getOrCreate(CommandOrigin) creates the state of a connected
\* non-simulated player, the state is not temporary, and a release of the
\* dirty state whose store succeeds writes it to storage.
C25_TempFlag ==
  /\ (world.exists /\ ~env.simulated) => ~world.temp
  /\ (/\ call.op = "release"
      /\ ~env.simulated
      /\ call.before.exists
      /\ call.before.mDirty
      /\ call.ok) => env.storage = serialize(call.before)

\* the last call was release(uuid) on a dirty state that is not temporary
C26Unsaved ==
  /\ call.op = "release"
  /\ call.before.exists
  /\ ~call.before.temp
  /\ call.before.mDirty

\* C26: release removes the state from memory only if it is temporary, or
\* not dirty, or its serialization was stored; when the store fails the
\* state stays in memory and release returns false; after a successful
\* release of a dirty non-temporary state the storage holds its
\* serialization.
C26_ReleaseKeepsUnsaved ==
  /\ (call.op = "release" /\ call.before.exists /\ ~world.exists) =>
       \/ call.before.temp
       \/ ~call.before.mDirty
       \/ (call.ok /\ env.storage = serialize(call.before))
  /\ (C26Unsaved /\ ~call.ok) => (world = call.before /\ ~call.ret)
  /\ (C26Unsaved /\ call.ret) => env.storage = serialize(call.before)

\* C26 witness: a release of a dirty non-temporary state whose store failed
C26_Witness ==
  /\ C26Unsaved
  /\ ~call.ok
  /\ world.exists
  /\ world.mainPos.set

(***************************************************************************)
(* Claims about the selection and the clicks (SpecClick).                  *)
(***************************************************************************)
\* C27 (as claimed): after any sequence of setMainPos and setVicePos calls,
\* a mainPos that is set has the dimension of the region, and so has a
\* vicePos that is set.
C27_OneDimension ==
  world.exists =>
    /\ world.mainPos.set => (world.region.set /\ world.mainPos.dim = world.region.dim)
    /\ world.vicePos.set => (world.region.set /\ world.vicePos.dim = world.region.dim)

\* the selection of a state
C28Selection(st) == <<st.mainPos, st.vicePos, st.region>>

\* a non-long wand click of the kind op that has a previous one at tick prev:
\* it returns Hold, sets its position when at least minimum_response_tick
\* ticks have passed since prev, and leaves the selection unchanged otherwise
C28Click(op, prev) ==
  (call'.op = op /\ call'.wand /\ ~call'.isLong /\ prev >= 0) =>
    /\ call'.ret = "Hold"
    /\ IF env.tick - prev >= MinimumResponseTick
         THEN LET p == IF op = "leftClick" THEN world'.mainPos ELSE world'.vicePos
              IN  p = [set |-> TRUE, pos |-> call'.dst.pos, dim |-> call'.dst.dim]
         ELSE C28Selection(world') = C28Selection(world)

\* C28: a non-long wand left click sets the main position if and only if at
\* least minimum_response_tick ticks have passed since the player's previous
\* non-long wand left click, accepted or discarded; a discarded click leaves
\* the selection unchanged and returns Hold.  Right clicks follow the same
\* rule with their own previous click, whatever the left clicks were.
C28_Debounce ==
  [][C28Click("leftClick", env.prevLeft) /\ C28Click("rightClick", env.prevRight)]_vars

\* C28 witness: a left click discarded at a tick when the state's own first
\* interval is over, so that only an earlier click can have caused it,
\* after a right click was accepted in the same tick
C28_Witness ==
  /\ call.op = "leftClick" /\ call.wand /\ ~call.isLong
  /\ env.tick >= MinimumResponseTick
  /\ world.lastLeftClick = env.tick
  /\ world.mainPos.set
  /\ world.mainPos.pos # call.dst.pos
  /\ world.vicePos.set
  /\ world.lastRightClick = env.tick

====
